---- MODULE Spec2Model ----
(***************************************************************************)
(* Verification model of life2you/datas-go.                                *)
(*                                                                         *)
(*  - storage.PriorityQueue (storage/memory_queue.go): a mutex-guarded     *)
(*    binary min-heap of *Item driven through container/heap.              *)
(*  - rpc.WebSocketClient and rpc.PumpPortalClient: the two streaming      *)
(*    subscription clients (connect / read loop / heartbeat / reconnect).  *)
(*  - handler.StartScanBlockQueue / handleBlock: block fetch and fan-out.  *)
(*  - handler.StartProcessTransactionQueue / processTransactionBatch: the  *)
(*    transaction enrichment worker over the API client pool.              *)
(***************************************************************************)
EXTENDS Integers, Sequences, FiniteSets, Bags, TLC

(***************************************************************************)
(* Bounds of the model.                                                    *)
(***************************************************************************)
\* Number of Push calls made on the queue in one behaviour.
MaxItems == 3

\* Priorities (block slots) and opaque values offered to Push.
Ranks == {10, 30, 50}
Values == {"a", "b"}

\* Go's nil interface value.
Nil == "nil"

\* Number of transports the dialer hands out in one behaviour.
MaxDials == 2
\* Number of outside callers (main, services) that may be inside Connect at once.
MaxCallers == 1
\* Number of notifications the peer sends while as many handlers are running.
MaxHandlers == 2
\* The subscribe calls made on the WebSocketClient: SlotSubscribe, the one
\* the services make, and AccountSubscribe; the method of the notifications
\* the server sends for each, and the handler the caller passes with each.
SubscribeMethods == <<"slotSubscribe", "accountSubscribe">>
NotificationMethods == {"slotNotification", "accountNotification"}
NotificationOf(method) ==
    IF method = "slotSubscribe" THEN "slotNotification" ELSE "accountNotification"
HandlerOf(method) ==
    IF method = "slotSubscribe" THEN "slotHandler" ELSE "accountHandler"
\* The two client implementations: rpc.WebSocketClient and rpc.PumpPortalClient.
Kinds == {"ws", "pp"}

VARIABLES
    heap,      \* PriorityQueue.heap: the backing slice, a sequence of *Item (item ids)
    items,     \* every Item allocated so far, by id: [Value, Priority, index]
    ret,       \* what the last PriorityQueue method call returned
    popped,    \* history: ids of the Items returned by successful Pops, in order
    mixed      \* history: TRUE once a Push has followed a successful Pop

qvars == <<heap, items, ret, popped, mixed>>

VARIABLES
    kind,             \* which client implementation this behaviour runs
    conn,             \* c.conn: 0 is nil, otherwise the id of a transport
    closed,           \* c.closed
    reconnect,        \* c.reconnect
    done,             \* TRUE once close(c.done) has run
    tstate,           \* every transport dialled so far: "open", "broken" (peer side) or "closed"
    thr,              \* bag of running goroutines / calls: [ty, pc, t, was]
    fired,            \* number of times the onConnect callback ran
    requested,        \* the transport the subscription request was last written to
                      \* (0: none was written)
    reconnectTicker,  \* PumpPortalClient.reconnectTicker: "nil", or the ticker it points
                      \* at as "running" or "stopped"
    ev,               \* history: the step just taken, [op, res, was, hd, msg, to]
    handlers,         \* number of handler goroutines started by readLoop that have
                      \* not returned
    subscriptions,    \* WebSocketClient.subscriptions: the handler stored under each
                      \* notification method ("none": no entry)
    asked             \* history: the subscribe methods whose call has returned a
                      \* request id

cvars == <<kind, conn, closed, reconnect, done, tstate, thr, fired, requested,
           reconnectTicker, ev, handlers, subscriptions, asked>>

\* The block fetch-and-fanout worker.
\* handleBlock gives up a slot once its failure counter i is above MaxRetries.
MaxRetries == 5
\* StartScanBlockQueue takes at most BatchSize slots per cycle.
BatchSize == 3
\* The slots the block queue is fed with are FirstSlot .. FirstSlot + MaxSlots - 1.
MaxSlots == 3
FirstSlot == 101
Slots == FirstSlot..(FirstSlot + MaxSlots - 1)

VARIABLES
    blockQueue,        \* storage.GlobalBlockQueue: [heap, items]
    transactionQueue,  \* storage.GlobalTransactionQueue: [heap, items]
    scan,              \* the goroutine of ScanBlockQueue: [pc, slotList]
    workers,           \* the handleBlock goroutines of the cycle, in launch order:
                       \* [slot, i, pc], and calls, the GetBlock calls made so far
    hb                 \* history, by slot: handleBlock invocations (started), how the
                       \* last one ended (result) and, where it gave the slot up, the
                       \* GetBlock calls it had made (calls) and the "abandoned" log
                       \* lines written for the slot (abandoned)

bvars == <<blockQueue, transactionQueue, scan, workers, hb>>

\* The transaction enrichment worker.
\* slices.Chunk(transactionItem.Signatures, 50)
ChunkSize == 50
\* NewHeliusEnhancedApiClient is given 0 .. MaxClients API keys.
MaxClients == 2
\* Number of transaction batches pushed in one behaviour.
MaxBatches == 2

VARIABLES
    clients,   \* len(rpc.GlobalHeliusEnhancedApiClients)
    enrich,    \* the goroutine of ProcessTransactionQueue: [pc, item, rest, i, wg, last],
               \* rest being the chunks the range loop has still to yield and last how
               \* the previous StartProcessTransactionQueue call ended
    tasks,     \* the processTransactionBatch goroutines started so far, in launch
               \* order: [Slot, clientIndex, signatures, pc, calls, outcome], calls
               \* being the ParseTransactions calls made and outcome "none", "failed"
               \* or "payload"
    store      \* the Redis commands issued through StoreHash, as a bag

evars == <<clients, enrich, tasks, store>>

vars == <<qvars, cvars, bvars, evars>>

(***************************************************************************)
(* priorityQueueImpl: the heap.Interface implementation.  A queue value q  *)
(* is [heap, items]; slice positions are 0-based as in the source.         *)
(***************************************************************************)
implLen(q) == Len(q.heap)

\* Mutant: the comparison reversed (a max-heap).
implLessReversed(q, i, j) ==
    q.items[q.heap[i + 1]].Priority > q.items[q.heap[j + 1]].Priority

implLess(q, i, j) ==
    q.items[q.heap[i + 1]].Priority < q.items[q.heap[j + 1]].Priority

\* Mutant: the slice elements are exchanged but the index fields are not updated.
implSwapNoIndex(q, i, j) ==
    [heap |-> [q.heap EXCEPT ![i + 1] = q.heap[j + 1], ![j + 1] = q.heap[i + 1]],
     items |-> q.items]

implSwap(q, i, j) ==
    LET h2 == [q.heap EXCEPT ![i + 1] = q.heap[j + 1], ![j + 1] = q.heap[i + 1]]
        it1 == [q.items EXCEPT ![h2[i + 1]].index = i]
        it2 == [it1 EXCEPT ![h2[j + 1]].index = j]
    IN  [heap |-> h2, items |-> it2]

\* item.index = n; *pq = append(*pq, item)
implPush(q, id) ==
    [heap |-> Append(q.heap, id),
     items |-> [q.items EXCEPT ![id].index = Len(q.heap)]]

\* Mutant: the slice is not truncated, so the removed Item stays in it.
implPopNoTruncate(q) ==
    LET n == Len(q.heap)
        id == q.heap[n]
    IN  [q |-> [heap |-> q.heap,
                items |-> [q.items EXCEPT ![id].index = -1]],
         item |-> id]

\* removes the last slice element, marks it detached and returns it
implPop(q) ==
    LET n == Len(q.heap)
        id == q.heap[n]
    IN  [q |-> [heap |-> SubSeq(q.heap, 1, n - 1),
                items |-> [q.items EXCEPT ![id].index = -1]],
         item |-> id]

(***************************************************************************)
(* container/heap as called by PriorityQueue: up, down, Push, Pop.         *)
(***************************************************************************)
\* Mutant: the pushed element is never sifted up.
heapUpNoSift(q, j) == q

RECURSIVE heapUp(_, _)
heapUp(q, j) ==
    LET i == IF j = 0 THEN 0 ELSE (j - 1) \div 2   \* Go: (j - 1) / 2 truncates to 0
    IN  IF i = j \/ ~implLess(q, j, i)
        THEN q
        ELSE heapUp(implSwap(q, i, j), i)

RECURSIVE heapDown(_, _, _)
heapDown(q, i, n) ==
    LET j1 == 2 * i + 1
    IN  IF j1 >= n
        THEN q
        ELSE LET j2 == j1 + 1
                 j == IF j2 < n /\ implLess(q, j2, j1) THEN j2 ELSE j1
             IN  IF ~implLess(q, j, i)
                 THEN q
                 ELSE heapDown(implSwap(q, i, j), j, n)

\* Mutant: a Push whose rank is already queued is dropped.
heapPushDedup(q, id) ==
    IF \E k \in 1..Len(q.heap) : q.items[q.heap[k]].Priority = q.items[id].Priority
    THEN q
    ELSE LET q1 == implPush(q, id)
         IN  heapUp(q1, implLen(q1) - 1)

\* heap.Push: h.Push(x); up(h, h.Len()-1)
heapPush(q, id) ==
    LET q1 == implPush(q, id)
    IN  heapUp(q1, implLen(q1) - 1)

\* Mutant: the top is returned and stays in the queue.
heapPopKeeps(q) == [q |-> q, item |-> q.heap[1]]

\* heap.Pop: n := h.Len()-1; h.Swap(0, n); down(h, 0, n); return h.Pop()
heapPop(q) ==
    LET n == implLen(q) - 1
    IN  implPop(heapDown(implSwap(q, 0, n), 0, n))

(***************************************************************************)
(* PriorityQueue: every method holds pq.mu for its whole body, so each     *)
(* call is one atomic step.                                                *)
(***************************************************************************)
TheQueue == [heap |-> heap, items |-> items]

NewPriorityQueue ==
    /\ heap = <<>>
    /\ items = <<>>
    /\ ret = [op |-> "New", value |-> Nil, rank |-> 0, found |-> FALSE, n |-> 0]
    /\ popped = <<>>
    /\ mixed = FALSE

PQPush(value, priority) ==
    /\ Len(items) < MaxItems
    /\ LET id == Len(items) + 1
           item == [Value |-> value, Priority |-> priority, index |-> 0]
           q == heapPush([heap |-> heap, items |-> Append(items, item)], id)
       IN  /\ heap' = q.heap
           /\ items' = q.items
    /\ ret' = [op |-> "Push", value |-> value, rank |-> priority, found |-> TRUE, n |-> 0]
    /\ mixed' = (mixed \/ popped # <<>>)
    /\ UNCHANGED <<popped, cvars, bvars, evars>>

\* The (value, rank, found) triple Pop returns on queue q, and the queue it leaves.
PopOf(q) ==
    IF implLen(q) = 0
    THEN [q |-> q, item |-> 0, value |-> Nil, rank |-> 0, found |-> FALSE]
    ELSE LET r == heapPop(q)
         IN  [q |-> r.q, item |-> r.item,
              value |-> r.q.items[r.item].Value,
              rank |-> r.q.items[r.item].Priority,
              found |-> TRUE]

\* Mutant: Pop waits until the queue holds an item.
PQPopBlocking ==
    /\ heap # <<>>
    /\ LET r == PopOf(TheQueue)
       IN  /\ heap' = r.q.heap
           /\ items' = r.q.items
           /\ ret' = [op |-> "Pop", value |-> r.value, rank |-> r.rank, found |-> r.found, n |-> 0]
           /\ popped' = Append(popped, r.item)
           /\ UNCHANGED <<mixed, cvars, bvars, evars>>

PQPop ==
    LET r == PopOf(TheQueue)
    IN  /\ heap' = r.q.heap
        /\ items' = r.q.items
        /\ ret' = [op |-> "Pop", value |-> r.value, rank |-> r.rank, found |-> r.found, n |-> 0]
        /\ popped' = IF r.found THEN Append(popped, r.item) ELSE popped
        /\ UNCHANGED <<mixed, cvars, bvars, evars>>

\* Mutant: Peek reads the last slice element instead of the heap top.
PeekOfLast(q) ==
    IF implLen(q) = 0
    THEN [value |-> Nil, rank |-> 0, found |-> FALSE]
    ELSE [value |-> q.items[q.heap[Len(q.heap)]].Value,
          rank |-> q.items[q.heap[Len(q.heap)]].Priority,
          found |-> TRUE]

\* The (value, rank, found) triple Peek returns on queue q.
PeekOf(q) ==
    IF implLen(q) = 0
    THEN [value |-> Nil, rank |-> 0, found |-> FALSE]
    ELSE [value |-> q.items[q.heap[1]].Value,
          rank |-> q.items[q.heap[1]].Priority,
          found |-> TRUE]

\* Mutant: Peek takes the top item off the heap instead of reading it.
PQPeekRemoves ==
    LET r == PopOf(TheQueue)
    IN  /\ heap' = r.q.heap
        /\ items' = r.q.items
        /\ ret' = [op |-> "Peek", value |-> r.value, rank |-> r.rank, found |-> r.found, n |-> 0]
        /\ UNCHANGED <<popped, mixed, cvars, bvars, evars>>

PQPeek ==
    LET r == PeekOf(TheQueue)
    IN  /\ ret' = [op |-> "Peek", value |-> r.value, rank |-> r.rank, found |-> r.found, n |-> 0]
        /\ UNCHANGED <<heap, items, popped, mixed, cvars, bvars, evars>>

PQLen ==
    /\ ret' = [op |-> "Len", value |-> Nil, rank |-> 0, found |-> FALSE, n |-> implLen(TheQueue)]
    /\ UNCHANGED <<heap, items, popped, mixed, cvars, bvars, evars>>

QueueNext ==
    \/ \E v \in Values, p \in Ranks : PQPush(v, p)
    \/ PQPop
    \/ PQPeek
    \/ PQLen

\* InitQueue and the block worker before its first cycle.
InitQueue ==
    /\ blockQueue = [heap |-> <<>>, items |-> <<>>]
    /\ transactionQueue = [heap |-> <<>>, items |-> <<>>]
    /\ scan = [pc |-> "sleep", slotList |-> <<>>]
    /\ workers = <<>>
    /\ hb = [s \in Slots |-> [started |-> 0, calls |-> 0, abandoned |-> 0, result |-> "none"]]

\* The enrichment worker before startup: the client pool is the empty global
\* slice, ProcessTransactionQueue has not been called, nothing is stored.
NoItem == [Signatures |-> <<>>, Slot |-> 0]
InitEnrich ==
    /\ clients = 0
    /\ enrich = [pc |-> "boot", item |-> NoItem, rest |-> <<>>, i |-> 0, wg |-> 0,
                 last |-> "none"]
    /\ tasks = <<>>
    /\ store = EmptyBag

\* The queue on its own: no client is running.
QueueInit ==
    /\ NewPriorityQueue
    /\ InitQueue
    /\ InitEnrich
    /\ kind = "ws" /\ conn = 0 /\ closed = FALSE /\ reconnect = TRUE /\ done = FALSE
    /\ tstate = <<>> /\ thr = EmptyBag /\ fired = 0 /\ requested = 0
    /\ reconnectTicker = "nil"
    /\ ev = [op |-> "New", res |-> "", was |-> FALSE, hd |-> FALSE, msg |-> "", to |-> ""]
    /\ handlers = 0
    /\ subscriptions = [n \in NotificationMethods |-> "none"]
    /\ asked = {}

SpecQueue == QueueInit /\ [][QueueNext]_vars

(***************************************************************************)
(* The streaming subscription clients.  A goroutine or a call in progress  *)
(* is a record [ty, pc, t, was] in the bag thr:                            *)
(*   ty  "user" (an outside Connect call), "sub" (an outside subscribe     *)
(*       call), "recon" (the reconnect                                     *)
(*       goroutine of handleDisconnect), "read" (readLoop), "ping"         *)
(*       (pingLoop);                                                       *)
(*   pc  where it stands;                                                  *)
(*   t   its local: the transport a readLoop is blocked on, or whether a   *)
(*       reconnect goroutine waits on the current ticker (1) or on a       *)
(*       replaced one (0);                                                 *)
(*   was whether c.conn was set when its Connect call began.               *)
(* ev tells what the last step was: the call made (op), its outcome (res), *)
(* whether c.conn was set when the call began (was), whether the step      *)
(* called handleDisconnect (hd) and, for a step of a loop that read a      *)
(* message or met a transport error, what it met (msg), and for a step     *)
(* that dispatched a notification the handler it started (to).             *)
(* A goroutine that returns because its transport is dead, because done is *)
(* closed or because its dial failed calls handleDisconnect in the same    *)
(* step: what made it return stays true while it waits for the lock.       *)
(***************************************************************************)
T(ty, pc, t, was) == [ty |-> ty, pc |-> pc, t |-> t, was |-> was]
E(op, res, was) ==
    [op |-> op, res |-> res, was |-> was, hd |-> FALSE, msg |-> "", to |-> ""]
Ev(op, msg, res, called) ==
    [op |-> op, res |-> res, was |-> FALSE, hd |-> called, msg |-> msg, to |-> ""]
H(e, called) == [e EXCEPT !.hd = called]
Spawn(b, r) == b (+) SetToBag({r})
Exit(b, r) == b (-) SetToBag({r})
Goto(b, r, pc) == Spawn(Exit(b, r), [r EXCEPT !.pc = pc])
Running == BagToSet(thr)
NumOf(b, ty) == BagCardinality([r \in {x \in BagToSet(b) : x.ty = ty} |-> b[r]])

\* The calls made from outside that have not returned yet.
Calls(b) == NumOf(b, "user") + NumOf(b, "sub")

\* A nil-pointer panic outside readLoop is not recovered: the process is gone
\* and no step follows.
Crashed == ev.res = "panic"

\* conn.Close() on transport c (no effect on a nil conn, which the callers exclude)
connClose(ts, c) == IF c = 0 THEN ts ELSE [ts EXCEPT ![c] = "closed"]

\* A read or a write on transport c fails once it is broken or closed.
Fails(c) == tstate[c] # "open"

\* if c.reconnectTicker != nil { c.reconnectTicker.Stop() }: a stopped ticker
\* sends no tick any more.
tickerStop(tk) == IF tk = "nil" THEN "nil" ELSE "stopped"

\* The reconnect goroutines that wait on the ticker c.reconnectTicker points at
\* (t = 1) wait on a replaced ticker (t = 0) once the field is assigned a new
\* one; handleDisconnect stops a ticker before it replaces it.
tickerReplaced(b) ==
    LET old(r) == IF r.ty = "recon" /\ r.pc = "wait" THEN [r EXCEPT !.t = 0] ELSE r
        S == {old(r) : r \in BagToSet(b)}
    IN  [r \in S |-> IF r.ty = "recon" /\ r.pc = "wait"
                     THEN (IF BagIn([r EXCEPT !.t = 1], b) THEN b[[r EXCEPT !.t = 1]] ELSE 0)
                          + (IF BagIn(r, b) THEN b[r] ELSE 0)
                     ELSE b[r]]

NewClient(k) ==
    /\ kind = k
    /\ conn = 0
    /\ closed = FALSE
    /\ reconnect = TRUE
    /\ done = FALSE
    /\ tstate = <<>>
    /\ thr = EmptyBag
    /\ fired = 0
    /\ requested = 0
    /\ reconnectTicker = "nil"
    /\ ev = E("New", "", FALSE)
    /\ handlers = 0
    /\ subscriptions = [n \in NotificationMethods |-> "none"]
    /\ asked = {}

(***************************************************************************)
(* handleDisconnect, called by goroutine th, which ends with it.           *)
(***************************************************************************)
\* Mutant: handleDisconnect without the closed / reconnect check.
WShandleDisconnectNoCheck(th) ==
    /\ tstate' = connClose(tstate, conn)
    /\ conn' = 0
    /\ thr' = Spawn(Exit(thr, th), T("recon", "sleep", 0, FALSE))

\* WebSocketClient.handleDisconnect: the whole body runs under c.mutex
WShandleDisconnect(th) ==
    IF closed \/ ~reconnect
    THEN /\ thr' = Exit(thr, th)
         /\ UNCHANGED <<conn, tstate>>
    ELSE /\ tstate' = connClose(tstate, conn)
         /\ conn' = 0
         /\ thr' = Spawn(Exit(thr, th), T("recon", "sleep", 0, FALSE))

\* PumpPortalClient.handleDisconnect, the part under connMutex; the part under
\* reconnectMutex follows in a step of its own
PPhandleDisconnect(th) ==
    IF closed \/ ~reconnect
    THEN /\ thr' = Exit(thr, th)
         /\ UNCHANGED <<conn, tstate>>
    ELSE /\ tstate' = connClose(tstate, conn)
         /\ conn' = 0
         /\ thr' = Spawn(Exit(thr, th), T(th.ty, "disc2", 0, FALSE))

handleDisconnect(th) ==
    IF kind = "ws" THEN WShandleDisconnect(th) ELSE PPhandleDisconnect(th)

\* PumpPortalClient.handleDisconnect, the part under reconnectMutex: the old
\* ticker is stopped, a new one made and the reconnect goroutine started
PPhandleDisconnectTicker(th) ==
    /\ kind = "pp"
    /\ th.pc = "disc2"
    /\ reconnectTicker' = "running"
    /\ thr' = Spawn(tickerReplaced(Exit(thr, th)), T("recon", "sel", 0, FALSE))
    /\ ev' = E("step", "", FALSE)
    /\ UNCHANGED <<qvars, bvars, evars, requested, kind, handlers, subscriptions, asked, conn, closed, reconnect, done, tstate, fired>>

(***************************************************************************)
(* WebSocketClient.Connect: the closed check is made under c.mutex, which  *)
(* is released before the dial; c.conn is set under c.mutex again; the     *)
(* callback and the two go statements follow outside the lock.             *)
(***************************************************************************)
\* lines 79-84, called from outside
WSConnect ==
    /\ kind = "ws"
    /\ ~Crashed
    /\ Calls(thr) < MaxCallers
    /\ IF closed
       THEN /\ thr' = thr
            /\ ev' = E("Connect", "closed", FALSE)
       ELSE /\ thr' = Spawn(thr, T("user", "dial", 0, conn # 0))
            /\ ev' = E("Connect", "pending", conn # 0)
    /\ UNCHANGED <<qvars, bvars, evars, requested, kind, handlers, subscriptions, asked, conn, closed, reconnect, done, tstate, fired,
                   reconnectTicker>>

\* lines 247-255: the reconnect goroutine wakes up and calls Connect; when it
\* finds the client closed, Connect returns the error and the goroutine calls
\* handleDisconnect
WSReconnectConnect(th) ==
    /\ kind = "ws"
    /\ th.ty = "recon" /\ th.pc = "sleep"
    /\ IF closed
       THEN /\ WShandleDisconnect(th)
            /\ ev' = H(E("Connect", "closed", FALSE), TRUE)
       ELSE /\ thr' = Spawn(Exit(thr, th), T("recon", "dial", 0, conn # 0))
            /\ ev' = E("Connect", "pending", conn # 0)
            /\ UNCHANGED <<conn, tstate>>
    /\ UNCHANGED <<qvars, bvars, evars, requested, kind, handlers, subscriptions, asked, closed, reconnect, done, fired, reconnectTicker>>

\* Mutant: the callback also runs when the dial failed.
WSDialFiresOnError(th) ==
    /\ kind = "ws"
    /\ th.pc = "dial"
    /\ \/ /\ IF th.ty = "user"
             THEN thr' = Exit(thr, th) /\ UNCHANGED <<conn, tstate>>
             ELSE WShandleDisconnect(th)
          /\ ev' = H(E("Dial", "err", th.was), th.ty # "user")
          /\ fired' = fired + 1
       \/ /\ Len(tstate) < MaxDials
          /\ tstate' = Append(tstate, "open")
          /\ conn' = Len(tstate) + 1
          /\ fired' = fired + 1
          /\ thr' = Spawn(Spawn(Exit(thr, th), T("read", "top", 0, FALSE)),
                          T("ping", "tick", 0, FALSE))
          /\ ev' = E("Dial", "ok", th.was)
    /\ UNCHANGED <<qvars, bvars, evars, requested, kind, handlers, subscriptions, asked, closed, reconnect, done, reconnectTicker>>

\* lines 110-130: dialer.DialContext; on an error return it (the reconnect
\* goroutine then calls handleDisconnect); otherwise c.conn = conn under
\* c.mutex, onConnect(), go readLoop(), go pingLoop(), return nil (and, in the
\* reconnect goroutine, resubscribe, which only logs).  The dial and the go
\* statements touch nothing another goroutine reads, so they are taken in one
\* step with the assignment of c.conn.
WSDial(th) ==
    /\ kind = "ws"
    /\ th.pc = "dial"
    /\ \/ /\ IF th.ty = "user"
             THEN thr' = Exit(thr, th) /\ UNCHANGED <<conn, tstate>>
             ELSE WShandleDisconnect(th)
          /\ ev' = H(E("Dial", "err", th.was), th.ty # "user")
          /\ UNCHANGED fired
       \/ /\ Len(tstate) < MaxDials
          /\ tstate' = Append(tstate, "open")
          /\ conn' = Len(tstate) + 1
          /\ fired' = fired + 1
          /\ thr' = Spawn(Spawn(Exit(thr, th), T("read", "top", 0, FALSE)),
                          T("ping", "tick", 0, FALSE))
          /\ ev' = E("Dial", "ok", th.was)
    /\ UNCHANGED <<qvars, bvars, evars, requested, kind, handlers, subscriptions, asked, closed, reconnect, done, reconnectTicker>>

\* Mutant: Close forgets c.reconnect = false.
WSCloseKeepsReconnect ==
    /\ kind = "ws"
    /\ ~Crashed
    /\ IF closed
       THEN /\ ev' = E("Close", "noop", FALSE)
            /\ UNCHANGED <<closed, done, tstate>>
       ELSE /\ closed' = TRUE
            /\ done' = TRUE
            /\ tstate' = connClose(tstate, conn)
            /\ ev' = E("Close", "first", FALSE)
    /\ UNCHANGED <<qvars, bvars, evars, requested, kind, handlers, subscriptions, asked, conn, thr, fired, reconnect, reconnectTicker>>

\* WebSocketClient.Close
WSClose ==
    /\ kind = "ws"
    /\ ~Crashed
    /\ IF closed
       THEN /\ ev' = E("Close", "noop", FALSE)
            /\ UNCHANGED <<closed, done, reconnect, tstate>>
       ELSE /\ closed' = TRUE
            /\ done' = TRUE
            /\ reconnect' = FALSE
            /\ tstate' = connClose(tstate, conn)
            /\ ev' = E("Close", "first", FALSE)
    /\ UNCHANGED <<qvars, bvars, evars, requested, kind, handlers, subscriptions, asked, conn, thr, fired, reconnectTicker>>

\* WebSocketClient.pingLoop: case <-c.done returns; on a tick the ping is
\* written to the current c.conn, if there is one, and a failed write ends the
\* loop with handleDisconnect
WSpingLoop(th) ==
    /\ kind = "ws"
    /\ th.ty = "ping" /\ th.pc = "tick"
    /\ \/ /\ done
          /\ thr' = Exit(thr, th)
          /\ ev' = E("step", "", FALSE)
          /\ UNCHANGED <<conn, tstate>>
       \/ IF conn # 0 /\ Fails(conn)
          THEN WShandleDisconnect(th) /\ ev' = Ev("ping", "error", "return", TRUE)
          ELSE ev' = E("step", "", FALSE) /\ UNCHANGED <<thr, conn, tstate>>
    /\ UNCHANGED <<qvars, bvars, evars, requested, kind, handlers, subscriptions, asked, closed, reconnect, done, fired, reconnectTicker>>

(***************************************************************************)
(* Both clients: readLoop and the peer.                                    *)
(***************************************************************************)
\* readLoop, top of the loop: done closed -> return, and the deferred
\* handleDisconnect runs; otherwise ReadMessage on the current c.conn (read
\* without the lock); a nil conn panics, the deferred function recovers and
\* goes on to handleDisconnect
readLoopSelect(th) ==
    /\ th.ty = "read" /\ th.pc = "top"
    /\ IF done
       THEN handleDisconnect(th)
       ELSE /\ thr' = IF conn = 0
                      THEN Goto(thr, th, "disc")
                      ELSE Spawn(Exit(thr, th), T("read", "reading", conn, FALSE))
            /\ UNCHANGED <<conn, tstate>>
    /\ ev' = H(E("step", "", FALSE), done)
    /\ UNCHANGED <<qvars, bvars, evars, requested, kind, handlers, subscriptions, asked, closed, reconnect, done, fired, reconnectTicker>>

\* The messages a transport delivers: bytes that are not the JSON the loop
\* unmarshals into, a notification, a notification whose params do not
\* unmarshal, and the response to a request.
Messages(k) ==
    IF k = "ws" THEN {"malformed", "notification", "badparams", "response"}
    ELSE {"malformed", "notification"}

\* response.Method of a message: "notification" is a slotNotification.
IsNotification(message) == message = "notification" \/ message \in NotificationMethods
MethodOfMessage(message) == IF message = "notification" THEN "slotNotification" ELSE message

\* Whether readLoop finds a handler for a notification: the WebSocketClient
\* looks response.Method up in c.subscriptions; the PumpPortalClient has its
\* handler from the constructor.
handlerExists(k, message) ==
    \/ k = "pp"
    \/ IsNotification(message) /\ subscriptions[MethodOfMessage(message)] # "none"

\* The handler readLoop starts for a notification.
handlerFor(k, message) ==
    IF k = "pp" THEN "handler" ELSE subscriptions[MethodOfMessage(message)]

\* Mutant: a message that does not unmarshal ends the loop.
readLoopStepReturnsOnMalformed(k, err, message, exists) ==
    IF err \/ message = "malformed" THEN "return"
    ELSE IF IsNotification(message) /\ exists THEN "dispatch" ELSE "continue"

\* Mutant: after a read error the loop reads again.
readLoopStepIgnoresError(k, err, message, exists) ==
    IF err \/ message = "malformed" THEN "continue"
    ELSE IF IsNotification(message) /\ exists THEN "dispatch" ELSE "continue"

\* readLoop, what follows ReadMessage: a read error returns; a message that
\* does not unmarshal is logged and the loop continues; a notification goes to
\* its handler in a goroutine of its own (go handler(...)), on the
\* WebSocketClient when its params unmarshal and a handler is registered;
\* anything else is logged at most.  After each of these but the first the
\* loop continues.
readLoopStep(k, err, message, exists) ==
    IF err THEN "return"
    ELSE IF message = "malformed" THEN "continue"
    ELSE IF k = "ws"
         THEN CASE IsNotification(message) -> IF exists THEN "dispatch" ELSE "continue"
                [] message = "badparams" -> "continue"
                [] OTHER -> "continue"
         ELSE "dispatch"

\* What the peer may send: an accountNotification as well once an
\* accountSubscribe request has been accepted, and no further notification
\* while MaxHandlers handlers are running.
Deliverable ==
    LET all == Messages(kind) \cup
                   (IF "accountSubscribe" \in asked THEN {"accountNotification"} ELSE {})
    IN  IF handlers < MaxHandlers THEN all ELSE {x \in all : ~IsNotification(x)}

\* Mutant: the handler is called in the goroutine of readLoop, which goes on
\* when the handler has returned.
dispatchInline(what) == IF what = "dispatch" THEN "handler" ELSE "top"

\* go handler(...): the handler runs in a goroutine of its own and readLoop
\* is at the top of its loop again, whatever it did with the message
dispatch(what) == "top"

\* readLoop, ReadMessage returns: the deferred handleDisconnect runs when the
\* loop returns; a notification with a handler starts the handler goroutine,
\* for which nothing waits
readLoopMessage(th) ==
    /\ th.ty = "read" /\ th.pc = "reading"
    /\ \E message \in IF Fails(th.t) THEN {"error"} ELSE Deliverable :
           LET what == readLoopStep(kind, Fails(th.t), message, handlerExists(kind, message))
           IN  /\ IF what = "return"
                  THEN handleDisconnect(th)
                  ELSE /\ thr' = Spawn(Exit(thr, th), T("read", dispatch(what), 0, FALSE))
                       /\ UNCHANGED <<conn, tstate>>
               /\ handlers' = IF what = "dispatch" THEN handlers + 1 ELSE handlers
               /\ ev' = [Ev("read", message, what, what = "return") EXCEPT
                             !.to = IF what = "dispatch" THEN handlerFor(kind, message) ELSE ""]
    /\ UNCHANGED <<qvars, bvars, evars, requested, kind, subscriptions, asked, closed, reconnect,
                   done, fired, reconnectTicker>>

\* A handler goroutine returns.  Nothing in the client waits for it or makes
\* it return.
HandlerReturns ==
    /\ ~Crashed
    /\ handlers > 0
    /\ handlers' = handlers - 1
    /\ ev' = E("step", "", FALSE)
    /\ UNCHANGED <<qvars, bvars, evars, requested, kind, subscriptions, asked, conn, closed, reconnect, done, tstate, thr,
                   fired, reconnectTicker>>

\* readLoop, the deferred handleDisconnect after a recovered panic
readLoopRecovered(th) ==
    /\ th.ty = "read" /\ th.pc = "disc"
    /\ handleDisconnect(th)
    /\ ev' = H(E("step", "", FALSE), TRUE)
    /\ UNCHANGED <<qvars, bvars, evars, requested, kind, handlers, subscriptions, asked, closed, reconnect, done, fired, reconnectTicker>>

\* The peer or the network ends transport c, which the client still uses.
TransportBreaks(c) ==
    /\ ~Crashed
    /\ tstate[c] = "open"
    /\ c = conn \/ \E th \in Running : th.ty = "read" /\ th.pc = "reading" /\ th.t = c
    /\ tstate' = [tstate EXCEPT ![c] = "broken"]
    /\ ev' = E("step", "", FALSE)
    /\ UNCHANGED <<qvars, bvars, evars, requested, kind, handlers, subscriptions, asked, conn, closed, reconnect, done, thr, fired, reconnectTicker>>

(***************************************************************************)
(* PumpPortalClient.                                                       *)
(***************************************************************************)
\* Mutant: Connect without the c.closed check.
PPConnectBodyNoClosedCheck(res, b) ==
    \/ /\ res = "noop"
       /\ conn # 0
       /\ thr' = b
       /\ UNCHANGED <<conn, tstate>>
    \/ /\ res = "dialerr"
       /\ conn = 0
       /\ thr' = b
       /\ UNCHANGED <<conn, tstate>>
    \/ /\ res = "ok"
       /\ conn = 0
       /\ Len(tstate) < MaxDials
       /\ tstate' = Append(tstate, "open")
       /\ conn' = Len(tstate) + 1
       /\ thr' = Spawn(Spawn(b, T("read", "top", 0, FALSE)), T("ping", "tick", 0, FALSE))

\* PumpPortalClient.Connect holds connMutex from the closed check to the go
\* statements; b is the caller's own bag of goroutines after the call.
PPConnectBody(res, b) ==
    \/ /\ res = "closed"
       /\ closed
       /\ thr' = b
       /\ UNCHANGED <<conn, tstate>>
    \/ /\ res = "noop"
       /\ ~closed /\ conn # 0
       /\ thr' = b
       /\ UNCHANGED <<conn, tstate>>
    \/ /\ res = "dialerr"
       /\ ~closed /\ conn = 0
       /\ thr' = b
       /\ UNCHANGED <<conn, tstate>>
    \/ /\ res = "ok"
       /\ ~closed /\ conn = 0
       /\ Len(tstate) < MaxDials
       /\ tstate' = Append(tstate, "open")
       /\ conn' = Len(tstate) + 1
       /\ thr' = Spawn(Spawn(b, T("read", "top", 0, FALSE)), T("ping", "tick", 0, FALSE))

ConnectResults == {"closed", "noop", "dialerr", "ok"}

\* Connect called from outside
PPConnect ==
    /\ kind = "pp"
    /\ \E res \in ConnectResults :
           /\ PPConnectBody(res, thr)
           /\ ev' = E("Connect", res, conn # 0 /\ ~closed)
    /\ UNCHANGED <<qvars, bvars, evars, requested, kind, handlers, subscriptions, asked, closed, reconnect, done, fired, reconnectTicker>>

\* PumpPortalClient.Close
PPClose ==
    /\ kind = "pp"
    /\ IF closed
       THEN /\ ev' = E("Close", "noop", FALSE)
            /\ UNCHANGED <<closed, done, reconnect, tstate, reconnectTicker>>
       ELSE /\ closed' = TRUE
            /\ done' = TRUE
            /\ reconnect' = FALSE
            /\ reconnectTicker' = tickerStop(reconnectTicker)
            /\ tstate' = connClose(tstate, conn)
            /\ ev' = E("Close", "first", FALSE)
    /\ UNCHANGED <<qvars, bvars, evars, requested, kind, handlers, subscriptions, asked, conn, thr, fired>>

\* reconnect goroutine, entering the select: c.reconnectTicker is read (without
\* a lock) and the goroutine waits on the channel of the ticker it points at
PPReconnectSelect(th) ==
    /\ kind = "pp"
    /\ th.ty = "recon" /\ th.pc = "sel"
    /\ thr' = Spawn(Exit(thr, th), T("recon", "wait", 1, FALSE))
    /\ ev' = E("step", "", FALSE)
    /\ UNCHANGED <<qvars, bvars, evars, requested, kind, handlers, subscriptions, asked, conn, closed, reconnect, done, tstate, fired,
                   reconnectTicker>>

\* reconnect goroutine, case <-c.done
PPReconnectDone(th) ==
    /\ kind = "pp"
    /\ th.ty = "recon" /\ th.pc = "wait"
    /\ done
    /\ thr' = Exit(thr, th)
    /\ ev' = E("step", "", FALSE)
    /\ UNCHANGED <<qvars, bvars, evars, requested, kind, handlers, subscriptions, asked, conn, closed, reconnect, done, tstate, fired,
                   reconnectTicker>>

\* reconnect goroutine, case <-ticker.C: Connect; on an error continue, on
\* success go on to resubscribe and Stop
PPReconnectTick(th) ==
    /\ kind = "pp"
    /\ th.ty = "recon" /\ th.pc = "wait"
    /\ th.t = 1 /\ reconnectTicker = "running"
    /\ \E res \in ConnectResults :
           /\ PPConnectBody(res, Spawn(Exit(thr, th),
                                       T("recon",
                                         IF res \in {"closed", "dialerr"} THEN "sel" ELSE "stop",
                                         0, FALSE)))
           /\ ev' = E("Connect", res, conn # 0 /\ ~closed)
    /\ UNCHANGED <<qvars, bvars, evars, requested, kind, handlers, subscriptions, asked, closed, reconnect, done, fired, reconnectTicker>>

\* reconnect goroutine after a successful Connect: resubscribe (a log line),
\* c.reconnectTicker.Stop(), return
PPReconnectStop(th) ==
    /\ kind = "pp"
    /\ th.ty = "recon" /\ th.pc = "stop"
    /\ reconnectTicker' = tickerStop(reconnectTicker)
    /\ thr' = Exit(thr, th)
    /\ ev' = E("step", "", FALSE)
    /\ UNCHANGED <<qvars, bvars, evars, requested, kind, handlers, subscriptions, asked, conn, closed, reconnect, done, tstate, fired>>

\* PumpPortalClient.pingLoop: case <-c.done returns; on a tick a nil c.conn
\* ends the loop, a failed ping ends it with handleDisconnect
PPpingLoop(th) ==
    /\ kind = "pp"
    /\ th.ty = "ping" /\ th.pc = "tick"
    /\ \/ /\ done
          /\ thr' = Exit(thr, th)
          /\ ev' = E("step", "", FALSE)
          /\ UNCHANGED <<conn, tstate>>
       \/ /\ IF conn = 0
             THEN thr' = Exit(thr, th) /\ UNCHANGED <<conn, tstate>>
             ELSE IF Fails(conn)
             THEN PPhandleDisconnect(th)
             ELSE UNCHANGED <<thr, conn, tstate>>
          /\ ev' = IF conn # 0 /\ Fails(conn)
                   THEN Ev("ping", "error", "return", TRUE)
                   ELSE E("step", "", FALSE)
    /\ UNCHANGED <<qvars, bvars, evars, requested, kind, handlers, subscriptions, asked, closed, reconnect, done, fired, reconnectTicker>>

(***************************************************************************)
(* Subscribing.  One subscription stands for them all.                     *)
(***************************************************************************)
\* WebSocketClient.subscribe, lines 309-314: c.conn is checked under c.mutex,
\* which is released before the request is built
WSsubscribe(m) ==
    /\ kind = "ws"
    /\ ~Crashed
    /\ Calls(thr) < MaxCallers
    /\ IF conn = 0
       THEN /\ thr' = thr
            /\ ev' = E("subscribe", "err", FALSE)
       ELSE /\ thr' = Spawn(thr, T("sub", "write", m, FALSE))
            /\ ev' = E("subscribe", "pending", FALSE)
    /\ UNCHANGED <<qvars, bvars, evars, requested, kind, handlers, subscriptions, asked, conn,
                   closed, reconnect, done, tstate, fired, reconnectTicker>>

\* c.subscriptions["slotNotification"] = handler, whatever the method is
subscribeStore(subs, method, handler) == [subs EXCEPT !["slotNotification"] = handler]

\* WebSocketClient.subscribe, lines 330-343: c.conn.WriteJSON under c.mutex,
\* without a second look at c.conn; a nil c.conn panics and nothing recovers
\* it; a failed write returns the error; otherwise the handler is stored and
\* the request id returned
WSsubscribeWrite(th) ==
    /\ kind = "ws"
    /\ th.ty = "sub" /\ th.pc = "write"
    /\ LET method == SubscribeMethods[th.t]
       IN  IF conn = 0
           THEN /\ thr' = EmptyBag
                /\ ev' = E("subscribe", "panic", FALSE)
                /\ UNCHANGED <<requested, subscriptions, asked>>
           ELSE /\ thr' = Exit(thr, th)
                /\ IF Fails(conn)
                   THEN /\ ev' = E("subscribe", "err", FALSE)
                        /\ UNCHANGED <<requested, subscriptions, asked>>
                   ELSE /\ ev' = E("subscribe", "ok", FALSE)
                        /\ requested' = conn
                        /\ subscriptions' = subscribeStore(subscriptions, method,
                                                           HandlerOf(method))
                        /\ asked' = asked \cup {method}
    /\ UNCHANGED <<qvars, bvars, evars, kind, handlers, conn, closed, reconnect, done, tstate,
                   fired, reconnectTicker>>

\* PumpPortalClient.sendRequest with a subscribe request: the whole call holds
\* connMutex
PPsendRequest ==
    /\ kind = "pp"
    /\ IF conn = 0 \/ Fails(conn)
       THEN ev' = E("subscribe", "err", FALSE) /\ UNCHANGED requested
       ELSE ev' = E("subscribe", "ok", FALSE) /\ requested' = conn
    /\ UNCHANGED <<qvars, bvars, evars, kind, handlers, subscriptions, asked, conn, closed, reconnect, done, tstate, thr, fired,
                   reconnectTicker>>

ClientNext ==
    \/ WSConnect
    \/ WSClose
    \/ PPConnect
    \/ PPClose
    \/ \E c \in 1..Len(tstate) : TransportBreaks(c)
    \/ \E th \in Running : WSReconnectConnect(th)
    \/ \E th \in Running : WSDial(th)
    \/ \E th \in Running : WSpingLoop(th)
    \/ \E th \in Running : readLoopSelect(th)
    \/ \E th \in Running : readLoopMessage(th)
    \/ HandlerReturns
    \/ \E th \in Running : readLoopRecovered(th)
    \/ \E th \in Running : PPhandleDisconnectTicker(th)
    \/ \E th \in Running : PPReconnectSelect(th)
    \/ \E th \in Running : PPReconnectDone(th)
    \/ \E th \in Running : PPReconnectTick(th)
    \/ \E th \in Running : PPReconnectStop(th)
    \/ \E th \in Running : PPpingLoop(th)

ClientInit ==
    /\ \E k \in Kinds : NewClient(k)
    /\ NewPriorityQueue
    /\ InitQueue
    /\ InitEnrich

SpecClient == ClientInit /\ [][ClientNext]_vars

\* The clients with the subscribe calls.
\* The clients with the subscription the services make: SlotSubscribe.
SubscribeNext ==
    \/ ClientNext
    \/ WSsubscribe(1)
    \/ PPsendRequest
    \/ \E th \in Running : WSsubscribeWrite(th)

SpecSubscribe == ClientInit /\ [][SubscribeNext]_vars

\* The WebSocketClient with SlotSubscribe and AccountSubscribe calls, its
\* transport staying up and Close not called.
DispatchNext ==
    \/ WSConnect
    \/ \E th \in Running : WSDial(th)
    \/ \E m \in 1..Len(SubscribeMethods) : WSsubscribe(m)
    \/ \E th \in Running : WSsubscribeWrite(th)
    \/ \E th \in Running : WSpingLoop(th)
    \/ \E th \in Running : readLoopSelect(th)
    \/ \E th \in Running : readLoopMessage(th)
    \/ HandlerReturns

DispatchInit == ClientInit /\ kind = "ws"

SpecDispatch == DispatchInit /\ [][DispatchNext]_vars

(***************************************************************************)
(* The clients when Close is never called.  Every goroutine that can take  *)
(* a step takes it in the end, and a dial the server is ready to accept    *)
(* is not refused for ever.                                                *)
(***************************************************************************)
ReconnectNext ==
    \/ WSConnect
    \/ PPConnect
    \/ \E c \in 1..Len(tstate) : TransportBreaks(c)
    \/ \E th \in Running : WSReconnectConnect(th)
    \/ \E th \in Running : WSDial(th)
    \/ \E th \in Running : WSpingLoop(th)
    \/ \E th \in Running : readLoopSelect(th)
    \/ \E th \in Running : readLoopMessage(th)
    \/ HandlerReturns
    \/ \E th \in Running : readLoopRecovered(th)
    \/ \E th \in Running : PPhandleDisconnectTicker(th)
    \/ \E th \in Running : PPReconnectSelect(th)
    \/ \E th \in Running : PPReconnectTick(th)
    \/ \E th \in Running : PPReconnectStop(th)
    \/ \E th \in Running : PPpingLoop(th)

ReconnectFairness ==
    /\ WF_vars(\E th \in Running : WSReconnectConnect(th))
    /\ WF_vars(\E th \in Running : WSDial(th))
    /\ SF_vars(\E th \in Running : WSDial(th) /\ ev'.res = "ok")
    /\ WF_vars(\E th \in Running : WSpingLoop(th))
    /\ WF_vars(\E th \in Running : readLoopSelect(th))
    /\ WF_vars(\E th \in Running : readLoopMessage(th))
    /\ WF_vars(\E th \in Running : readLoopRecovered(th))
    /\ WF_vars(\E th \in Running : PPhandleDisconnectTicker(th))
    /\ WF_vars(\E th \in Running : PPReconnectSelect(th))
    /\ WF_vars(\E th \in Running : PPReconnectTick(th))
    /\ SF_vars(\E th \in Running : PPReconnectTick(th) /\ ev'.res = "ok")
    /\ WF_vars(\E th \in Running : PPReconnectStop(th))
    /\ WF_vars(\E th \in Running : PPpingLoop(th))

SpecReconnect == ClientInit /\ [][ReconnectNext]_vars /\ ReconnectFairness

(***************************************************************************)
(* The block fetch-and-fanout worker: service.ScanBlockQueue runs          *)
(* handler.StartScanBlockQueue in a loop, with a pause after each cycle;   *)
(* a cycle pops up to BatchSize slots, starts one handleBlock goroutine    *)
(* for each and waits for all of them.                                     *)
(***************************************************************************)
\* A transaction of a block: its signatures, its log messages (each a sequence
\* of words) and its InstructionError.
VoteMarker == "Vote111111111111111111111111111111111111111"
txPlain == [Signatures |-> <<"sigA">>,
            LogMessages |-> <<<<"Program", "log:", "swap">>>>,
            InstructionError |-> <<>>]
txVote == [Signatures |-> <<"sigV">>,
           LogMessages |-> <<<<"Program", "log:", "tick">>,
                             <<"Program", VoteMarker, "invoke">>>>,
           InstructionError |-> <<>>]
txFailed == [Signatures |-> <<"sigF">>,
             LogMessages |-> <<>>,
             InstructionError |-> <<"Custom">>]
txMulti == [Signatures |-> <<"sigB", "sigC">>,
            LogMessages |-> <<>>,
            InstructionError |-> <<>>]
txVoteFailed == [Signatures |-> <<"sigW">>,
                 LogMessages |-> <<<<VoteMarker>>>>,
                 InstructionError |-> <<"Custom">>]

\* What the chain holds at each slot: the payload GetBlock returns when it
\* returns one.  "garbage" is a payload json.Unmarshal rejects.
BlockAt(slot) ==
    CASE (slot - FirstSlot) % 4 = 0 -> <<txVote, txMulti, txFailed, txPlain>>
      [] (slot - FirstSlot) % 4 = 1 -> <<txVote, txFailed, txVoteFailed>>
      [] (slot - FirstSlot) % 4 = 2 -> "garbage"
      [] OTHER -> <<>>

\* The outcomes of one rpc.GlobalHeliusClient.GetBlock call: an error, a nil
\* result, a non-nil result of length 0, or the payload.
Responses == {"err", "nil", "empty", "payload"}

\* json.Unmarshal(blockResp, &blockData)
Unmarshal(payload) ==
    IF payload = "garbage"
    THEN [err |-> TRUE, Transactions |-> <<>>]
    ELSE [err |-> FALSE, Transactions |-> payload]

\* strings.Contains(logMessage, "Vote111..."), a message being a sequence of words
Contains(logMessage, marker) == \E k \in 1..Len(logMessage) : logMessage[k] = marker

\* the loop over transaction.Meta.LogMessages
RECURSIVE isVote(_, _)
isVote(logMessages, k) ==
    IF k > Len(logMessages)
    THEN FALSE
    ELSE IF Contains(logMessages[k], VoteMarker)
         THEN TRUE
         ELSE isVote(logMessages, k + 1)

\* Mutant: failed transactions are kept.
collectTransKeepsFailed(transactions, k, trans) ==
    SelectSeq(transactions, LAMBDA t : ~isVote(t.LogMessages, 1))

\* the loop over blockData.Transactions, from position k on, appending to trans
RECURSIVE collectTrans(_, _, _)
collectTrans(transactions, k, trans) ==
    IF k > Len(transactions)
    THEN trans
    ELSE LET transaction == transactions[k]
         IN  IF isVote(transaction.LogMessages, 1)
             THEN collectTrans(transactions, k + 1, trans)
             ELSE IF Len(transaction.InstructionError) > 0
                  THEN collectTrans(transactions, k + 1, trans)
                  ELSE collectTrans(transactions, k + 1, Append(trans, transaction))

\* signatures = append(signatures, transaction.Transaction.Signatures...)
RECURSIVE collectSignatures(_, _, _)
collectSignatures(trans, k, signatures) ==
    IF k > Len(trans)
    THEN signatures
    ELSE collectSignatures(trans, k + 1, signatures \o trans[k].Signatures)

\* PriorityQueue.Push on queue q
PushOf(q, value, priority) ==
    LET id == Len(q.items) + 1
        item == [Value |-> value, Priority |-> priority, index |-> 0]
    IN  heapPush([heap |-> q.heap, items |-> Append(q.items, item)], id)

\* The slots that are in queue q.
QueuedSlots(q) == {q.items[q.heap[k]].Value : k \in 1..Len(q.heap)}

\* The producer (the subscription callback or a backlog scan) pushes a new
\* slot onto the block queue, with the slot as its rank.
PushBlock(slot) ==
    /\ \A k \in 1..Len(blockQueue.items) : blockQueue.items[k].Value # slot
    /\ blockQueue' = PushOf(blockQueue, slot, slot)
    /\ UNCHANGED <<qvars, cvars, evars, transactionQueue, scan, workers, hb>>

\* ScanBlockQueue: the pause is over, StartScanBlockQueue begins
ScanStart ==
    /\ scan.pc = "sleep"
    /\ scan' = [pc |-> "pop", slotList |-> <<>>]
    /\ UNCHANGED <<qvars, cvars, evars, blockQueue, transactionQueue, workers, hb>>

\* Mutant: the Pop loop is left after its first turn.
ScanPopTakesOne ==
    /\ scan.pc = "pop"
    /\ LET r == PopOf(blockQueue)
           slotList == IF r.found THEN Append(scan.slotList, r.value) ELSE scan.slotList
       IN  /\ blockQueue' = r.q
           /\ scan' = IF Len(slotList) = 0 THEN [pc |-> "sleep", slotList |-> <<>>]
                      ELSE [pc |-> "launch", slotList |-> slotList]
    /\ UNCHANGED <<qvars, cvars, evars, transactionQueue, workers, hb>>

\* StartScanBlockQueue, one turn of the Pop loop: stop when the queue is empty
\* or BatchSize slots are taken; with no slot taken the cycle is over
ScanPop ==
    /\ scan.pc = "pop"
    /\ LET r == PopOf(blockQueue)
           slotList == IF r.found THEN Append(scan.slotList, r.value) ELSE scan.slotList
           out == ~r.found \/ Len(slotList) >= BatchSize
       IN  /\ blockQueue' = r.q
           /\ scan' = IF ~out THEN [pc |-> "pop", slotList |-> slotList]
                      ELSE IF Len(slotList) = 0 THEN [pc |-> "sleep", slotList |-> <<>>]
                      ELSE [pc |-> "launch", slotList |-> slotList]
    /\ UNCHANGED <<qvars, cvars, evars, transactionQueue, workers, hb>>

\* StartScanBlockQueue, one turn of the launch loop: wg.Add(1), a short sleep,
\* go handleBlock(ctx, slot); after the last one, wg.Wait()
ScanLaunch ==
    /\ scan.pc = "launch"
    /\ LET slot == scan.slotList[Len(workers) + 1]
       IN  /\ workers' = Append(workers, [slot |-> slot, i |-> 0, calls |-> 0, pc |-> "run"])
           /\ hb' = [hb EXCEPT ![slot].started = @ + 1]
    /\ scan' = IF Len(workers) + 1 = Len(scan.slotList)
               THEN [scan EXCEPT !.pc = "wait"]
               ELSE scan
    /\ UNCHANGED <<qvars, cvars, evars, blockQueue, transactionQueue>>

\* wg.Wait() returns when every handleBlock of the cycle has returned; the
\* cycle is over and ScanBlockQueue pauses
ScanWait ==
    /\ scan.pc = "wait"
    /\ \A k \in 1..Len(workers) : workers[k].pc = "done"
    /\ scan' = [pc |-> "sleep", slotList |-> <<>>]
    /\ workers' = <<>>
    /\ UNCHANGED <<qvars, cvars, evars, blockQueue, transactionQueue, hb>>

\* Mutant: a batch is pushed whether or not there is a signature.
fanoutPushesEmpty(slot, payload) ==
    LET blockData == Unmarshal(payload)
        trans == collectTrans(blockData.Transactions, 1, <<>>)
        signatures == collectSignatures(trans, 1, <<>>)
    IN  IF blockData.err
        THEN [result |-> "parsefail", queue |-> transactionQueue]
        ELSE [result |-> IF Len(signatures) > 0 THEN "batch" ELSE "empty",
              queue |-> PushOf(transactionQueue,
                               [Signatures |-> signatures, Slot |-> slot], slot)]

\* handleBlock after the retry loop: parse, filter, collect, push.  int64(slot)
\* keeps the value of every slot below 2^63.
fanout(slot, payload) ==
    LET blockData == Unmarshal(payload)
        trans == collectTrans(blockData.Transactions, 1, <<>>)
        signatures == collectSignatures(trans, 1, <<>>)
    IN  IF blockData.err
        THEN [result |-> "parsefail", queue |-> transactionQueue]
        ELSE IF Len(signatures) > 0
             THEN [result |-> "batch",
                   queue |-> PushOf(transactionQueue,
                                    [Signatures |-> signatures, Slot |-> slot], slot)]
             ELSE [result |-> "empty", queue |-> transactionQueue]

\* Mutant: the retry counter is never looked at.
giveUpNever(i) == FALSE

\* if i > 5
giveUp(i) == i > MaxRetries

\* A handleBlock goroutine that has returned (its locals are gone).
returned(slot) == [slot |-> slot, i |-> 0, calls |-> 0, pc |-> "done"]

\* handleBlock, one turn of the retry loop of goroutine k: give up when i is
\* above the bound; otherwise call GetBlock; an error, a nil result and an
\* empty result count as a failure (the first two followed by a sleep); a
\* payload ends the loop, and the rest of handleBlock follows
handleBlock(k) ==
    /\ k \in 1..Len(workers)
    /\ workers[k].pc = "run"
    /\ LET w == workers[k]
           slot == w.slot
       IN  IF giveUp(w.i)
           THEN /\ workers' = [workers EXCEPT ![k] = returned(slot)]
                /\ hb' = [hb EXCEPT ![slot].abandoned = @ + 1,
                                    ![slot].calls = w.calls,
                                    ![slot].result = "abandoned"]
                /\ UNCHANGED transactionQueue
           ELSE \E response \in Responses :
                    IF response = "payload"
                    THEN LET f == fanout(slot, BlockAt(slot))
                         IN  /\ transactionQueue' = f.queue
                             /\ workers' = [workers EXCEPT ![k] = returned(slot)]
                             /\ hb' = [hb EXCEPT ![slot].result = f.result]
                    ELSE /\ workers' = [workers EXCEPT ![k].i = @ + 1,
                                                       ![k].calls = @ + 1]
                         /\ UNCHANGED <<transactionQueue, hb>>
    /\ UNCHANGED <<qvars, cvars, evars, blockQueue, scan>>

BlockNext ==
    \/ \E slot \in Slots : PushBlock(slot)
    \/ ScanStart
    \/ ScanPop
    \/ ScanLaunch
    \/ ScanWait
    \/ \E k \in 1..BatchSize : handleBlock(k)

SpecBlock == QueueInit /\ [][BlockNext]_vars

\* Every started handleBlock goroutine keeps being scheduled, and each
\* GetBlock call returns (the context of the cycle has a deadline).
SpecBlockFair ==
    /\ SpecBlock
    /\ \A k \in 1..BatchSize : WF_vars(handleBlock(k))

(***************************************************************************)
(* The transaction enrichment worker.  service.ProcessTransactionQueue     *)
(* calls handler.StartProcessTransactionQueue in a loop: pop one batch,    *)
(* cut its signatures into chunks, start one processTransactionBatch       *)
(* goroutine per chunk and wait for all of them.                           *)
(***************************************************************************)
\* The number of signatures the fan-out collects from the block at a slot.
BatchLenAt(slot) ==
    CASE (slot - FirstSlot) % 4 = 0 -> 120
      [] (slot - FirstSlot) % 4 = 1 -> 1
      [] (slot - FirstSlot) % 4 = 2 -> 51
      [] OTHER -> 50

\* The k-th signature of the block at a slot.
Sig(slot, k) == ToString(slot) \o "-" \o ToString(k)
Sigs(slot, n) == [k \in 1..n |-> Sig(slot, k)]

\* resp.NeedToParseTransactionType
NeedToParseTransactionType ==
    <<"TRANSFER", "BURN", "TOKEN_MINT", "SWAP", "INITIALIZE_ACCOUNT", "UNLABELED">>

\* slices.Contains
SlicesContains(list, x) == \E k \in 1..Len(list) : list[k] = x

\* *resp.TransactionError as json.Unmarshal leaves it: absent (nil pointer),
\* present with instructionError null, with an empty list, or with a list.
NoError == [nil |-> TRUE, InstructionError |-> [null |-> TRUE, list |-> <<>>]]
ErrorOnly == [nil |-> FALSE, InstructionError |-> [null |-> TRUE, list |-> <<>>]]
EmptyInstructionError == [nil |-> FALSE, InstructionError |-> [null |-> FALSE, list |-> <<>>]]
InstructionFailed ==
    [nil |-> FALSE, InstructionError |-> [null |-> FALSE, list |-> <<"0", "Custom">>]]

\* What the enrichment API answers for the j-th signature of a call: the
\* resp.ParsedTransaction fields processTransactionBatch reads.
Parsed(signature, j) ==
    [Signature |-> signature,
     Source |-> IF j % 2 = 0 THEN "PUMP_FUN" ELSE "RAYDIUM",
     Type |-> CASE j % 8 \in {0, 2, 4} -> "SWAP"
                [] j % 8 \in {3, 7} -> "TRANSFER"
                [] j % 8 = 6 -> "NFT_SALE"
                [] OTHER -> "UNKNOWN",
     TransactionError |-> CASE j % 8 \in {2, 5} -> InstructionFailed
                            [] j % 8 \in {3, 6} -> ErrorOnly
                            [] j % 8 = 4 -> EmptyInstructionError
                            [] OTHER -> NoError]

\* The outcomes of one client.ParseTransactions call: an error (timeout,
\* transport failure, status other than 200), a body of length 0, a body
\* json.Unmarshal rejects, or the list of parsed transactions.
ParseOutcomes == {"err", "empty", "garbage", "payload"}
PayloadOf(signatures) == [j \in 1..Len(signatures) |-> Parsed(signatures[j], j)]

\* RedisClient.StoreHash: the commands put on the pipeline.
StoreHash(key, field, value, expiration) ==
    LET redisKey == "solana:hash:" \o key
    IN  <<[cmd |-> "HSET", key |-> redisKey, field |-> field, value |-> value, ttl |-> 0]>>
        \o (IF expiration > 0
            THEN <<[cmd |-> "EXPIRE", key |-> redisKey, field |-> "", value |-> "",
                    ttl |-> expiration]>>
            ELSE <<>>)

\* Mutant: no transaction is skipped for its error.
hasInstructionErrorIgnored(transaction) == FALSE

\* the test that makes the loop skip a transaction
hasInstructionError(transaction) ==
    /\ ~transaction.TransactionError.nil
    /\ ~transaction.TransactionError.InstructionError.null
    /\ Len(transaction.TransactionError.InstructionError.list) > 0

\* Mutant: the marker of the source program is not written.
persistRecordOnly(transaction) ==
    IF hasInstructionError(transaction)
    THEN <<>>
    ELSE IF SlicesContains(NeedToParseTransactionType, transaction.Type)
         THEN StoreHash(transaction.Source \o "_" \o transaction.Type,
                        transaction.Signature, transaction.Type, 0)
         ELSE <<>>

\* processTransactionBatch, the body of the loop for one transaction: the
\* commands it issues
persist(transaction) ==
    IF hasInstructionError(transaction)
    THEN <<>>
    ELSE IF SlicesContains(NeedToParseTransactionType, transaction.Type)
         THEN StoreHash(transaction.Source, transaction.Source, transaction.Type, 0)
              \o StoreHash(transaction.Source \o "_" \o transaction.Type,
                           transaction.Signature, transaction.Type, 0)
         ELSE <<>>

\* the loop over parsedTransactions, from position k on
RECURSIVE persistAll(_, _)
persistAll(parsedTransactions, k) ==
    IF k > Len(parsedTransactions)
    THEN <<>>
    ELSE persist(parsedTransactions[k]) \o persistAll(parsedTransactions, k + 1)

\* The bag holding the elements of a sequence.
RECURSIVE BagOf(_, _)
BagOf(seq, k) ==
    IF k > Len(seq) THEN EmptyBag ELSE SetToBag({seq[k]}) (+) BagOf(seq, k + 1)

\* Mutant: a last chunk shorter than n is not yielded.
ChunkDropsShort(s, n) == [k \in 1..(Len(s) \div n) |-> SubSeq(s, (k - 1) * n + 1, k * n)]

\* slices.Chunk(s, n): consecutive sub-slices of at most n elements
RECURSIVE Chunk(_, _)
Chunk(s, n) ==
    IF Len(s) = 0
    THEN <<>>
    ELSE LET end == IF n < Len(s) THEN n ELSE Len(s)
         IN  <<SubSeq(s, 1, end)>> \o Chunk(SubSeq(s, end + 1, Len(s)), n)

\* handleBlock pushes the batch of a block on the transaction queue: a block
\* is pushed once and carries at least one signature.
PushBatch(slot) ==
    /\ Len(transactionQueue.items) < MaxBatches
    /\ \A k \in 1..Len(transactionQueue.items) : transactionQueue.items[k].Priority # slot
    /\ transactionQueue' =
           PushOf(transactionQueue,
                  [Signatures |-> Sigs(slot, BatchLenAt(slot)), Slot |-> slot], slot)
    /\ UNCHANGED <<qvars, cvars, evars, blockQueue, scan, workers, hb>>

\* NewHeliusEnhancedApiClient with n API keys configured: one client per key
NewHeliusEnhancedApiClient(n) ==
    /\ enrich.pc = "boot"
    /\ clients' = clients + n
    /\ enrich' = [enrich EXCEPT !.pc = "ready"]
    /\ UNCHANGED <<qvars, cvars, bvars, tasks, store>>

\* service.ProcessTransactionQueue: the goroutine of the loop is started
ProcessTransactionQueue ==
    /\ enrich.pc = "ready"
    /\ enrich' = [enrich EXCEPT !.pc = "top"]
    /\ UNCHANGED <<qvars, cvars, bvars, clients, tasks, store>>

\* Mutant: the batch is popped before the client count is looked at.
StartProcessTransactionQueuePopsFirst ==
    /\ enrich.pc = "top"
    /\ LET clientCount == clients
           r == PopOf(transactionQueue)
       IN  /\ transactionQueue' = r.q
           /\ IF clientCount = 0
              THEN enrich' = [enrich EXCEPT !.last = "nopool"]
              ELSE IF ~r.found
                   THEN enrich' = [enrich EXCEPT !.last = "empty"]
                   ELSE LET signatures == Chunk(r.value.Signatures, ChunkSize)
                        IN  enrich' = [enrich EXCEPT
                                          !.pc = IF signatures = <<>> THEN "wait" ELSE "range",
                                          !.item = r.value,
                                          !.rest = signatures,
                                          !.i = 0]
    /\ UNCHANGED <<qvars, cvars, blockQueue, scan, workers, hb, clients, tasks, store>>

\* StartProcessTransactionQueue up to the range loop: return when the pool is
\* empty, sleep and return when the queue is, otherwise cut the signatures
StartProcessTransactionQueue ==
    /\ enrich.pc = "top"
    /\ LET clientCount == clients
           r == PopOf(transactionQueue)
       IN  IF clientCount = 0
           THEN /\ enrich' = [enrich EXCEPT !.last = "nopool"]
                /\ UNCHANGED transactionQueue
           ELSE /\ transactionQueue' = r.q
                /\ IF ~r.found
                   THEN enrich' = [enrich EXCEPT !.last = "empty"]
                   ELSE LET signatures == Chunk(r.value.Signatures, ChunkSize)
                        IN  enrich' = [enrich EXCEPT
                                          !.pc = IF signatures = <<>> THEN "wait" ELSE "range",
                                          !.item = r.value,
                                          !.rest = signatures,
                                          !.i = 0]
    /\ UNCHANGED <<qvars, cvars, blockQueue, scan, workers, hb, clients, tasks, store>>

\* Mutant: the client index is the chunk number itself.
clientIndexOfNoModulo(i, clientCount) == i

\* clientIndex := i % clientCount
clientIndexOf(i, clientCount) == i % clientCount

\* StartProcessTransactionQueue, one turn of the range loop: wg.Add(1) and
\* go processTransactionBatch for the next chunk; after the last, wg.Wait()
RangeSignatures ==
    /\ enrich.pc = "range"
    /\ LET signature == Head(enrich.rest)
           clientIndex == clientIndexOf(enrich.i, clients)
       IN  tasks' = Append(tasks, [Slot |-> enrich.item.Slot,
                                   clientIndex |-> clientIndex,
                                   signatures |-> signature,
                                   pc |-> "run", calls |-> 0, outcome |-> "none"])
    /\ enrich' = [enrich EXCEPT !.rest = Tail(@),
                                !.i = @ + 1,
                                !.wg = @ + 1,
                                !.pc = IF Len(enrich.rest) = 1 THEN "wait" ELSE "range"]
    /\ UNCHANGED <<qvars, cvars, bvars, clients, store>>

\* Mutant: wg.Wait() returns at once.
waitOverNoWait(wg) == TRUE

\* wg.Wait() returns when the counter is zero
waitOver(wg) == wg = 0

\* wg.Wait() has returned: StartProcessTransactionQueue logs and returns
WaitTasks ==
    /\ enrich.pc = "wait"
    /\ waitOver(enrich.wg)
    /\ enrich' = [enrich EXCEPT !.pc = "top", !.item = NoItem, !.i = 0, !.last = "batch"]
    /\ UNCHANGED <<qvars, cvars, bvars, clients, tasks, store>>

\* Mutant: after a failed call the goroutine calls again.
dropBatchRetries(task) == [task EXCEPT !.calls = @ + 1]

\* processTransactionBatch after a ParseTransactions call that returned an
\* error, an empty body or a body that does not parse: log and return
dropBatch(task) == [task EXCEPT !.pc = "done", !.calls = @ + 1, !.outcome = "failed"]

\* processTransactionBatch of goroutine k: pick the client, call
\* ParseTransactions; on an error, an empty body or a body that does not
\* parse, return; otherwise persist the transactions and return; wg.Done()
\* runs when the goroutine returns.  The index is below the pool size, so
\* GetEnhancedApiClientByIndex does not go out of range.
processTransactionBatch(k) ==
    /\ k \in 1..Len(tasks)
    /\ tasks[k].pc = "run"
    /\ tasks[k].clientIndex < clients
    /\ \E outcome \in ParseOutcomes :
           IF outcome = "payload"
           THEN /\ tasks' = [tasks EXCEPT ![k].pc = "done",
                                          ![k].calls = @ + 1,
                                          ![k].outcome = "payload"]
                /\ store' = store (+) BagOf(persistAll(PayloadOf(tasks[k].signatures), 1), 1)
           ELSE /\ tasks' = [tasks EXCEPT ![k] = dropBatch(@)]
                /\ UNCHANGED store
    /\ enrich' = IF tasks'[k].pc = "done" THEN [enrich EXCEPT !.wg = @ - 1] ELSE enrich
    /\ UNCHANGED <<qvars, cvars, bvars, clients>>

EnrichNext ==
    \/ \E slot \in Slots : PushBatch(slot)
    \/ \E n \in 0..MaxClients : NewHeliusEnhancedApiClient(n)
    \/ ProcessTransactionQueue
    \/ StartProcessTransactionQueue
    \/ RangeSignatures
    \/ WaitTasks
    \/ \E k \in 1..Len(tasks) : processTransactionBatch(k)

SpecEnrich == QueueInit /\ [][EnrichNext]_vars

(***************************************************************************)
(* Properties of the PriorityQueue.                                        *)
(***************************************************************************)
PushedRanks == [k \in 1..Len(items) |-> items[k].Priority]
PoppedRanks == [k \in 1..Len(popped) |-> items[popped[k]].Priority]
QueuedRanks(q) == {q.items[q.heap[k]].Priority : k \in 1..Len(q.heap)}
Count(seq, x) == Cardinality({k \in 1..Len(seq) : seq[k] = x})
NonDecreasing(seq) == \A k \in 1..(Len(seq) - 1) : seq[k] <= seq[k + 1]
NoDuplicates(seq) == \A j, k \in 1..Len(seq) : j # k => seq[j] # seq[k]
MinRank(q) == CHOOSE r \in QueuedRanks(q) : \A o \in QueuedRanks(q) : r <= o

\* C1: when all Push calls precede the Pops, the ranks returned by the Pops are
\* non-decreasing; once Pop reports found=false they are a permutation of the
\* pushed ranks; pushing 50, 10, 30 makes three Pops return 10, 30, 50.
C1_HeapOrdering ==
    ~mixed =>
        /\ NonDecreasing(PoppedRanks)
        /\ (ret.op = "Pop" /\ ~ret.found) =>
               /\ Len(popped) = Len(items)
               /\ \A r \in Ranks : Count(PoppedRanks, r) = Count(PushedRanks, r)
        /\ (PushedRanks = <<50, 10, 30>> /\ Len(popped) = 3) =>
               PoppedRanks = <<10, 30, 50>>

C1_Witness ==
    /\ ~mixed
    /\ PushedRanks = <<50, 10, 30>>
    /\ Len(popped) = 3
    /\ ret.op = "Pop" /\ ~ret.found

\* C2: an Item returned by a successful Pop is never returned by a later Pop,
\* and each successful Pop decreases Len() by exactly one.
C2_ExactlyOncePop ==
    /\ [](NoDuplicates(popped))
    /\ [][(ret'.op = "Pop" /\ ret'.found) =>
              /\ implLen(TheQueue)' = implLen(TheQueue) - 1
              /\ \A k \in 1..Len(popped) : popped[k] # popped'[Len(popped')]]_qvars

C2_Witness ==
    /\ ret.op = "Pop" /\ ret.found
    /\ Len(popped) >= 2
    /\ heap # <<>>

\* C3: in any interleaving of Push and Pop, each successful Pop returns the
\* minimum of the ranks queued at the instant of the Pop; an Item pushed with a
\* rank lower than an already popped rank, and lower than every other queued
\* rank, is the one the next Pop returns.
C3_MinAtPopInstant ==
    [][(ret'.op = "Pop" /\ ret'.found) =>
           /\ ret'.rank = MinRank(TheQueue)
           /\ \A k \in 1..Len(heap) :
                  (/\ \E j \in 1..Len(popped) :
                          items[popped[j]].Priority > items[heap[k]].Priority
                   /\ \A o \in 1..Len(heap) :
                          o # k => items[heap[o]].Priority > items[heap[k]].Priority)
                  => popped'[Len(popped')] = heap[k]]_qvars

C3_Witness ==
    /\ mixed
    /\ ret.op = "Pop" /\ ret.found
    /\ heap # <<>>
    /\ \E j \in 1..(Len(popped) - 1) : items[popped[j]].Priority > ret.rank

\* C4: Pop on an empty queue returns (nil, 0, false) at once, without waiting,
\* and leaves the queue empty and unchanged.
C4_PopEmpty ==
    /\ [](implLen(TheQueue) = 0 => ENABLED PQPop)
    /\ [][(ret'.op = "Pop" /\ implLen(TheQueue) = 0) =>
              /\ ret'.value = Nil /\ ret'.rank = 0 /\ ~ret'.found
              /\ heap' = <<>>
              /\ UNCHANGED <<items, popped>>]_qvars

C4_Witness ==
    /\ ret.op = "Pop" /\ ~ret.found
    /\ heap = <<>>
    /\ popped # <<>>

\* C5: Peek returns the (value, rank, found) the next Pop would return and
\* leaves Len() and the contents of the queue unchanged; found=false when empty.
C5_PeekNonDestructive ==
    [][ret'.op = "Peek" =>
           /\ ret'.value = PopOf(TheQueue).value
           /\ ret'.rank = PopOf(TheQueue).rank
           /\ ret'.found = PopOf(TheQueue).found
           /\ ret'.found = (implLen(TheQueue) # 0)
           /\ implLen(TheQueue)' = implLen(TheQueue)
           /\ UNCHANGED <<heap, items>>]_qvars

C5_Witness ==
    /\ ret.op = "Peek" /\ ret.found
    /\ Len(heap) >= 2
    /\ ret.rank < items[heap[Len(heap)]].Priority

\* C6: Push always succeeds and adds exactly one Item, also when its rank or
\* value is already queued; k pushes of one rank give k separate Pops of it.
C6_PushNoDedup ==
    /\ [](Len(items) < MaxItems => \A v \in Values, p \in Ranks : ENABLED PQPush(v, p))
    /\ [](\A r \in Ranks :
              Count(PushedRanks, r) =
                  Count(PoppedRanks, r)
                  + Cardinality({k \in 1..Len(heap) : items[heap[k]].Priority = r}))
    /\ [](NoDuplicates(popped) /\ NoDuplicates(heap))
    /\ [][ret'.op = "Push" =>
              /\ implLen(TheQueue)' = implLen(TheQueue) + 1
              /\ \E k \in 1..Len(heap') : heap'[k] = Len(items')]_qvars

C6_Witness ==
    /\ heap = <<>>
    /\ Len(popped) >= 2
    /\ items[popped[1]] = items[popped[2]]
    /\ popped[1] # popped[2]

\* C7: every queued Item's index field is its position in the backing slice,
\* and an Item removed by Pop has index -1.
C7_IndexInvariant ==
    /\ \A k \in 1..Len(heap) : items[heap[k]].index = k - 1
    /\ \A k \in 1..Len(popped) : items[popped[k]].index = -1

C7_Witness ==
    /\ Len(heap) >= 2
    /\ popped # <<>>
    /\ items[heap[1]].Priority < items[popped[1]].Priority


(***************************************************************************)
(* Properties of the streaming subscription clients.                       *)
(***************************************************************************)
\* The goroutines a Connect starts, and the Connect calls that are dialling.
Loops(b) == NumOf(b, "read") + NumOf(b, "ping")
Dialling(b) == BagCardinality([r \in {x \in BagToSet(b) : x.pc = "dial"} |-> b[r]])

\* C8: Close is terminal: once closed, the client stays closed with
\* reconnection disabled and the done channel closed, every Connect call made
\* from then on returns the "closed" error, and a further Close changes nothing.
C8_CloseTerminal ==
    /\ [](closed => (~reconnect /\ done))
    /\ [][closed => closed']_vars
    /\ [][(ev'.op = "Connect" /\ closed) => ev'.res = "closed"]_vars
    /\ [][(ev'.op = "Close" /\ closed) =>
              /\ ev'.res = "noop"
              /\ UNCHANGED <<conn, closed, reconnect, done, tstate, thr, fired,
                             reconnectTicker>>]_vars

C8_Witness ==
    /\ kind = "pp"
    /\ closed /\ conn # 0
    /\ ev.op = "Connect" /\ ev.res = "closed"

\* C9: a Connect call on a closed client returns the error and starts nothing:
\* no transport is dialled, c.conn is not touched, no read loop or heartbeat
\* loop is started and the on-connect callback does not run.
C9_ConnectOnClosed ==
    [][(ev'.op = "Connect" /\ closed) =>
           /\ ev'.res = "closed"
           /\ UNCHANGED <<conn, tstate, fired>>
           /\ Loops(thr') = Loops(thr)
           /\ Dialling(thr') = Dialling(thr)]_vars

C9_Witness ==
    /\ kind = "ws"
    /\ closed /\ conn # 0
    /\ Loops(thr) > 0
    /\ ev.op = "Connect" /\ ev.res = "closed"

\* C10: a Connect call made while the client is connected is a no-op: neither
\* the call nor the dial it leads to opens a transport, replaces c.conn, starts
\* loops or runs the on-connect callback.
C10_ConnectIdempotent ==
    [][(ev'.op \in {"Connect", "Dial"} /\ ev'.was) =>
           /\ UNCHANGED <<conn, tstate, fired>>
           /\ Loops(thr') = Loops(thr)]_vars

\* The client holds a transport that is up.
Connected == conn # 0 /\ tstate[conn] = "open"

\* A reconnect attempt is on its way: a goroutine of handleDisconnect is about
\* to call Connect, or waits for a ticker that still runs.
Retrying ==
    \/ \E th \in Running : th.ty = "recon" /\ th.pc \in {"sleep", "dial"}
    \/ \E th \in Running : th.pc = "disc2"
    \/ /\ reconnectTicker = "running"
       /\ \E th \in Running :
              th.ty = "recon" /\ (th.pc = "sel" \/ (th.pc = "wait" /\ th.t = 1))

\* C11: when the transport of a client that was connected is gone, Close is
\* never called and the server accepts a connection after any number of
\* refused attempts, the client is connected again in the end.  The server
\* accepts MaxDials connections in all; once it accepts no more, the client
\* at least keeps trying.
C11_ReconnectConvergence ==
    (Len(tstate) > 0 /\ ~Connected)
        ~> (Connected \/ (Len(tstate) = MaxDials /\ Retrying))

\* C11 for the WebSocketClient alone
C11_WebSocketConverges ==
    (kind = "ws" /\ Len(tstate) > 0 /\ ~Connected)
        ~> (Connected \/ (Len(tstate) = MaxDials /\ Retrying))

\* C12: the on-connect callback of the WebSocketClient runs once for every
\* transport that is established and not at all for a dial that fails: after a
\* disconnect, failed attempts and one success it has run once for that
\* success.
C12_OnConnectOncePerSuccess ==
    /\ [](kind = "ws" => fired = Len(tstate))
    /\ [][kind = "ws" =>
              /\ (ev'.op = "Dial" /\ ev'.res = "err") => fired' = fired
              /\ (ev'.op = "Dial" /\ ev'.res = "ok") =>
                     /\ fired' = fired + 1
                     /\ Len(tstate') = Len(tstate) + 1]_vars

C12_Witness ==
    /\ kind = "ws"
    /\ ev.op = "Dial" /\ ev.res = "ok" /\ ~ev.was
    /\ tstate = <<"closed", "open">>
    /\ conn = 2
    /\ fired = 2

\* The reconnect attempt sequences under way: the goroutines handleDisconnect
\* started, but for those that wait on a replaced ticker, which will never
\* attempt anything.
Scheduled(b) ==
    BagCardinality([r \in {x \in BagToSet(b) :
                              x.ty = "recon" /\ ~(x.pc = "wait" /\ x.t = 0)}
                    |-> b[r]])

\* C13: handleDisconnect invoked more than once for the same dead transport
\* schedules one reconnect attempt sequence: while the first transport is the
\* only one there has been, at most one sequence is under way.
C13_DisconnectIdempotent ==
    Len(tstate) = 1 => Scheduled(thr) <= 1

\* C14: handleDisconnect on a closed client (reconnect is cleared by Close and
\* by nothing else) is a no-op: the calling goroutine returns, nothing is
\* started and no field of the client changes.
C14_DisconnectNoopWhenClosed ==
    [][(ev'.hd /\ (closed \/ ~reconnect)) =>
           /\ UNCHANGED <<conn, closed, reconnect, done, tstate, fired,
                          reconnectTicker>>
           /\ \E th \in Running : thr' = Exit(thr, th)]_vars

C14_Witness ==
    /\ ev.hd
    /\ closed /\ ~reconnect
    /\ conn # 0
    /\ Scheduled(thr) = 0

\* A reconnect goroutine has got its connection and has gone through
\* resubscribe in this step.
NumAt(b, pc) == BagCardinality([r \in {x \in BagToSet(b) : x.pc = pc} |-> b[r]])
Resubscribed ==
    \/ /\ kind = "ws"
       /\ ev'.op = "Dial" /\ ev'.res = "ok"
       /\ NumOf(thr', "recon") < NumOf(thr, "recon")
    \/ /\ kind = "pp"
       /\ NumAt(thr', "stop") < NumAt(thr, "stop")

\* C15: after a successful reconnect the subscription that was requested
\* before the disconnect has been requested again on the new transport.
C15_ResubscribeAfterReconnect ==
    [][(Resubscribed /\ requested # 0 /\ conn' # 0) => requested' = conn']_vars

(***************************************************************************)
(* Properties of the block fetch-and-fanout worker.                        *)
(***************************************************************************)
\* A transaction qualifies when none of its log messages holds the vote marker
\* and its instruction error is empty.
Qualifying(tx) ==
    /\ \A k \in 1..Len(tx.LogMessages) : ~Contains(tx.LogMessages[k], VoteMarker)
    /\ tx.InstructionError = <<>>
Parses(slot) == BlockAt(slot) # "garbage"
QualifyingOf(slot) == SelectSeq(BlockAt(slot), Qualifying)
RECURSIVE Flatten(_)
Flatten(seqs) == IF seqs = <<>> THEN <<>> ELSE Head(seqs) \o Flatten(Tail(seqs))
SignaturesOf(slot) ==
    Flatten([k \in 1..Len(QualifyingOf(slot)) |-> QualifyingOf(slot)[k].Signatures])
\* The batches of a slot that are in the transaction queue.
BatchesOf(slot) ==
    {k \in 1..Len(transactionQueue.heap) :
        transactionQueue.items[transactionQueue.heap[k]].Value.Slot = slot}
\* The handleBlock invocation for the slot ends in this step, having got the payload.
Fetched(slot) ==
    /\ hb[slot].result = "none"
    /\ hb'[slot].result \notin {"none", "abandoned"}

\* C16: when every GetBlock call for a slot fails, handleBlock calls it
\* MaxRetries times, gives the slot up with one "abandoned" log line and pushes
\* nothing onto the transaction queue.
C16_RetryBound ==
    \A slot \in Slots :
        hb[slot].result = "abandoned" =>
            /\ hb[slot].calls = MaxRetries
            /\ hb[slot].abandoned = 1
            /\ BatchesOf(slot) = {}

\* What handleBlock does when every call fails: MaxRetries + 1 calls.
RetryBoundPlusOne ==
    \A slot \in Slots :
        hb[slot].result = "abandoned" =>
            /\ hb[slot].calls = MaxRetries + 1
            /\ hb[slot].abandoned = 1
            /\ BatchesOf(slot) = {}

\* C17: a fetched block without a qualifying transaction pushes nothing: the
\* transaction queue is unchanged and handleBlock returns normally, as it does
\* for any other block (the cycle ends and later slots are taken).
C17_NoQualifyingNoEnqueue ==
    /\ [][\A slot \in Slots :
              (Fetched(slot) /\ Parses(slot) /\ QualifyingOf(slot) = <<>>) =>
                  /\ hb'[slot].result = "empty"
                  /\ hb'[slot].abandoned = 0
                  /\ UNCHANGED <<transactionQueue, blockQueue, scan>>
                  /\ \E k \in 1..Len(workers) :
                         workers' = [workers EXCEPT ![k] = returned(slot)]]_vars
    /\ [](\A slot \in Slots :
              (Parses(slot) /\ QualifyingOf(slot) = <<>>) => BatchesOf(slot) = {})

C17_Witness ==
    /\ hb[FirstSlot + 1].result = "empty"
    /\ Len(BlockAt(FirstSlot + 1)) > 0
    /\ hb[FirstSlot].result = "batch"
    /\ scan.pc = "sleep"

\* C18: a fetched block with a qualifying transaction pushes one batch, its
\* rank the slot, its signatures those of the qualifying transactions in block
\* order.
C18_OneBatchPerBlock ==
    [][\A slot \in Slots :
           (Fetched(slot) /\ Parses(slot) /\ QualifyingOf(slot) # <<>>) =>
               LET old == transactionQueue.items
                   new == transactionQueue'.items
               IN  /\ hb'[slot].result = "batch"
                   /\ Len(transactionQueue'.heap) = Len(transactionQueue.heap) + 1
                   /\ Len(new) = Len(old) + 1
                   /\ new[Len(new)].Value = [Signatures |-> SignaturesOf(slot), Slot |-> slot]
                   /\ new[Len(new)].Priority = slot
                   /\ \A n \in 1..Len(old) :
                          new[n].Value = old[n].Value /\ new[n].Priority = old[n].Priority
                   /\ {transactionQueue'.heap[n] : n \in 1..Len(transactionQueue'.heap)}
                          = {transactionQueue.heap[n] : n \in 1..Len(transactionQueue.heap)}
                                \cup {Len(new)}]_vars

C18_Witness ==
    /\ hb[FirstSlot].result = "batch"
    /\ Len(transactionQueue.heap) = 1
    /\ transactionQueue.items[1].Value =
           [Signatures |-> <<"sigB", "sigC", "sigA">>, Slot |-> FirstSlot]
    /\ transactionQueue.items[1].Priority = FirstSlot

\* The slots taken from the block queue so far.
Taken ==
    {scan.slotList[k] : k \in 1..Len(scan.slotList)} \cup {s \in Slots : hb[s].started > 0}

\* C19: a slot taken from the block queue is handled once: it is not in the
\* block queue again, it is in the list of one cycle only and handleBlock runs
\* for it once, whether the fetch succeeds or the slot is given up.
C19_SlotHandledOnce ==
    /\ Taken \cap QueuedSlots(blockQueue) = {}
    /\ \A s \in Slots : hb[s].started <= 1
    /\ \A j, k \in 1..Len(scan.slotList) : j # k => scan.slotList[j] # scan.slotList[k]
    /\ \A s \in Slots :
           (hb[s].started > 0 /\ \A k \in 1..Len(workers) : workers[k].slot # s) =>
               \A k \in 1..Len(scan.slotList) : scan.slotList[k] # s

C19_Witness ==
    /\ hb[FirstSlot].result = "abandoned"
    /\ hb[FirstSlot + 1].result = "empty"
    /\ hb[FirstSlot + 2].started = 1
    /\ scan.pc = "wait"

\* C20: a slot that waits in the block queue is not held up by another slot
\* whose fetch is being retried: the scanner does not stand at wg.Wait then.
C20_NoCrossSlotBlocking ==
    (/\ blockQueue.heap # <<>>
     /\ \E k \in 1..Len(workers) : workers[k].pc = "run" /\ workers[k].i > 0)
        => scan.pc # "wait"

(***************************************************************************)
(* Properties of the transaction enrichment worker.                        *)
(***************************************************************************)
\* The goroutines started for the batch of a slot, in launch order.
TasksOf(slot) == SelectSeq(tasks, LAMBDA t : t.Slot = slot)
\* The batches popped from the transaction queue whose range loop is over.
Cut ==
    {k \in 1..Len(transactionQueue.items) :
        /\ \A h \in 1..Len(transactionQueue.heap) : transactionQueue.heap[h] # k
        /\ ~(enrich.pc = "range" /\ enrich.item.Slot = transactionQueue.items[k].Value.Slot)}
ChunksOf(slot) == [j \in 1..Len(TasksOf(slot)) |-> TasksOf(slot)[j].signatures]
CeilDiv(n, d) == (n + d - 1) \div d

\* C21: a batch of n >= 1 signatures is cut into ceil(n / 50) sub-batches, all
\* of 50 signatures except possibly the last, and the sub-batches put end to
\* end are the signature list of the batch.
C21_BatchSplitting ==
    \A k \in Cut :
        LET batch == transactionQueue.items[k].Value
            n == Len(batch.Signatures)
            c == ChunksOf(batch.Slot)
        IN  n >= 1 =>
                /\ Len(c) = CeilDiv(n, ChunkSize)
                /\ \A j \in 1..(Len(c) - 1) : Len(c[j]) = ChunkSize
                /\ Len(c[Len(c)]) \in 1..ChunkSize
                /\ Flatten(c) = batch.Signatures

C21_Witness ==
    \E k \in Cut :
        LET batch == transactionQueue.items[k].Value
            c == ChunksOf(batch.Slot)
        IN  /\ Len(batch.Signatures) = 120
            /\ Len(c) = 3
            /\ Len(c[1]) = 50 /\ Len(c[2]) = 50 /\ Len(c[3]) = 20

\* C22 as stated: the sub-batches take the clients of the pool in round-robin
\* order from the pool's cursor on: each sub-batch goes to the index after the
\* one the sub-batch before it went to, modulo the pool size, and every index
\* is within the pool.
C22_RoundRobinFromCursor ==
    \A k \in 1..Len(tasks) :
        /\ tasks[k].clientIndex \in 0..(clients - 1)
        /\ k > 1 => tasks[k].clientIndex = (tasks[k - 1].clientIndex + 1) % clients

\* C22 amended: in every batch the round-robin starts at index 0: the j-th
\* sub-batch of a batch (from 0) goes to index j modulo the pool size, and
\* every index is within the pool.
C22_RoundRobinWithinBatch ==
    \A s \in Slots :
        \A j \in 1..Len(TasksOf(s)) :
            /\ TasksOf(s)[j].clientIndex = (j - 1) % clients
            /\ TasksOf(s)[j].clientIndex \in 0..(clients - 1)

C22_Witness ==
    /\ clients = 2
    /\ \E s, t \in Slots :
           /\ s # t
           /\ Len(TasksOf(s)) = 3
           /\ TasksOf(s)[3].clientIndex = 0
           /\ Len(TasksOf(t)) = 2
           /\ TasksOf(t)[2].clientIndex = 1

\* The parsed transactions the enrichment API has returned so far.
ReturnedTx ==
    UNION {{PayloadOf(tasks[k].signatures)[j] : j \in 1..Len(tasks[k].signatures)} :
              k \in {i \in 1..Len(tasks) : tasks[i].outcome = "payload"}}
\* The field-set commands issued under the signature of a transaction.
FieldWrites(signature) == {c \in BagToSet(store) : c.field = signature}
\* The two facts of a transaction as field-set commands.
MarkerOf(tx) ==
    [cmd |-> "HSET", key |-> "solana:hash:" \o tx.Source, field |-> tx.Source,
     value |-> tx.Type, ttl |-> 0]
RecordOf(tx) ==
    [cmd |-> "HSET", key |-> "solana:hash:" \o tx.Source \o "_" \o tx.Type,
     field |-> tx.Signature, value |-> tx.Type, ttl |-> 0]
NonNullInstructionError(tx) ==
    ~tx.TransactionError.nil /\ ~tx.TransactionError.InstructionError.null
TypesOfInterest == {NeedToParseTransactionType[k] : k \in 1..Len(NeedToParseTransactionType)}
Persisted == {tx \in ReturnedTx : FieldWrites(tx.Signature) # {}}

\* C23 as stated: a returned transaction whose instruction error is not null
\* has no field-set write, whatever its type.
C23_NonNullErrorNeverPersisted ==
    \A tx \in ReturnedTx : NonNullInstructionError(tx) => FieldWrites(tx.Signature) = {}

\* C23 amended: a returned transaction whose instruction error is not null and
\* not the empty list has no field-set write, whatever its type.
C23_FailedNeverPersisted ==
    \A tx \in ReturnedTx :
        (NonNullInstructionError(tx) /\ Len(tx.TransactionError.InstructionError.list) > 0)
            => FieldWrites(tx.Signature) = {}

C23_Witness ==
    /\ \E tx \in ReturnedTx :
           /\ NonNullInstructionError(tx)
           /\ Len(tx.TransactionError.InstructionError.list) > 0
           /\ tx.Type = "SWAP"
    /\ Persisted # {}

\* C24: a returned transaction without instruction error is persisted exactly
\* when its type is of interest; a persisted transaction has its record, once,
\* under its signature and the marker of its source program, the commands of
\* the store are two per persisted transaction, and none sets an expiry.
C24_PersistTypesOfInterest ==
    LET txs == ReturnedTx
        fields == {c.field : c \in BagToSet(store)}
        persisted == {tx \in txs : tx.Signature \in fields}
        expected == UNION {{RecordOf(tx), MarkerOf(tx)} : tx \in persisted}
    IN  /\ \A tx \in txs :
               ~NonNullInstructionError(tx) =>
                   IF tx.Type \in TypesOfInterest
                   THEN /\ CopiesIn(RecordOf(tx), store) = 1
                        /\ CopiesIn(MarkerOf(tx), store) >= 1
                   ELSE tx.Signature \notin fields
        /\ BagCardinality(store) = 2 * Cardinality(persisted)
        /\ BagToSet(store) \subseteq expected
        /\ \A c \in BagToSet(store) : c.cmd = "HSET" /\ c.ttl = 0

C24_Witness ==
    /\ \E tx \in ReturnedTx :
           ~NonNullInstructionError(tx) /\ tx.Type = "TRANSFER" /\ tx \in Persisted
    /\ \E tx \in ReturnedTx :
           ~NonNullInstructionError(tx) /\ tx.Type = "NFT_SALE" /\ tx \notin Persisted

\* The signatures of goroutine k, as a set.
SignatureSet(k) == {tasks[k].signatures[j] : j \in 1..Len(tasks[k].signatures)}

\* C25: a signature of a popped batch is passed to ParseTransactions at most
\* once; a sub-batch whose call failed has nothing persisted, made one call
\* only, and its batch is not on the transaction queue again.
C25_AtMostOnce ==
    /\ \A k \in 1..Len(tasks) : tasks[k].calls <= 1
    /\ \A j, k \in 1..Len(tasks) : j # k => SignatureSet(j) \cap SignatureSet(k) = {}
    /\ \A k \in 1..Len(tasks) :
           tasks[k].outcome = "failed" =>
               /\ tasks[k].pc = "done"
               /\ tasks[k].calls = 1
               /\ \A sig \in SignatureSet(k) : FieldWrites(sig) = {}
               /\ \A h \in 1..Len(transactionQueue.heap) :
                      transactionQueue.items[transactionQueue.heap[h]].Value.Slot
                          # tasks[k].Slot
    /\ \A j, k \in 1..Len(transactionQueue.items) :
           j # k => transactionQueue.items[j].Value.Slot # transactionQueue.items[k].Value.Slot

C25_Witness ==
    /\ enrich.pc = "top" /\ enrich.last = "batch"
    /\ \E j, k \in 1..Len(tasks) :
           /\ tasks[j].Slot = tasks[k].Slot
           /\ tasks[j].outcome = "failed"
           /\ tasks[k].outcome = "payload"
    /\ store # EmptyBag

\* C26: the goroutines in flight all belong to the batch the worker holds;
\* while the worker is about to pop, none is in flight.
C26_OneBatchAtATime ==
    \A k \in 1..Len(tasks) :
        tasks[k].pc = "run" =>
            /\ enrich.pc \in {"range", "wait"}
            /\ tasks[k].Slot = enrich.item.Slot

C26_Witness ==
    \E j, k \in 1..Len(tasks) :
        /\ tasks[j].Slot # tasks[k].Slot
        /\ tasks[j].pc = "done"
        /\ tasks[k].pc = "run"

\* C27: no client of the pool has two sub-batches in flight.
C27_BoundedFanout ==
    \A c \in 0..(clients - 1) :
        Cardinality({k \in 1..Len(tasks) : tasks[k].pc = "run" /\ tasks[k].clientIndex = c}) <= 1

\* C28: the worker loop runs only with a pool that holds a client: startup
\* with no API key does not get as far as the loop.
C28_EmptyPoolIsFatal ==
    enrich.pc \notin {"boot", "ready"} => clients > 0

(***************************************************************************)
(* Properties of the read loop and the heartbeat loop.                     *)
(***************************************************************************)
\* C29: a message that does not unmarshal is dropped and the read loop goes
\* on: no handler is started for it, handleDisconnect is not called, the
\* connection, its transport and the closed and reconnect flags stay as they
\* are, no reconnect goroutine appears, and the loop is back at its top.
C29_MalformedDiscarded ==
    [][(ev'.op = "read" /\ ev'.msg \in {"malformed", "badparams"}) =>
           /\ ev'.res = "continue"
           /\ ~ev'.hd
           /\ conn' = conn /\ tstate' = tstate
           /\ closed' = closed /\ reconnect' = reconnect /\ done' = done
           /\ NumOf(thr', "recon") = NumOf(thr, "recon")
           /\ NumAt(thr', "reading") = NumAt(thr, "reading") - 1
           /\ NumAt(thr', "top") = NumAt(thr, "top") + 1]_vars

C29_Witness ==
    /\ ev.op = "read" /\ ev.msg = "malformed"
    /\ conn # 0 /\ tstate[conn] = "open"
    /\ \E th \in Running : th.ty = "read" /\ th.pc = "top"
    /\ \E th \in Running : th.ty = "ping"

\* C30: a read error ends the read loop with a call of handleDisconnect, a
\* failed ping ends the heartbeat loop with a call of handleDisconnect, and a
\* loop that stands at a failed transport can take that step whatever the
\* other loop does.
C30_FailureLeadsToDisconnect ==
    /\ [][(ev'.op = "read" /\ ev'.msg = "error") =>
              /\ ev'.hd
              /\ NumAt(thr', "reading") = NumAt(thr, "reading") - 1
              /\ NumAt(thr', "top") = NumAt(thr, "top")]_vars
    /\ [][(ev'.op = "ping" /\ ev'.msg = "error") =>
              /\ ev'.hd
              /\ NumAt(thr', "tick") = NumAt(thr, "tick") - 1]_vars
    /\ [](\A th \in Running :
              /\ (th.ty = "read" /\ th.pc = "reading" /\ Fails(th.t))
                     => ENABLED (readLoopMessage(th) /\ ev'.hd)
              /\ (th.ty = "ping" /\ th.pc = "tick" /\ conn # 0 /\ Fails(conn))
                     => ENABLED ((WSpingLoop(th) \/ PPpingLoop(th)) /\ ev'.hd))

C30_Witness ==
    /\ ev.op = "ping" /\ ev.msg = "error" /\ ev.hd
    /\ \E th \in Running : th.ty = "read" /\ th.pc = "reading"


(***************************************************************************)
(* Concurrent use of one PriorityQueue.                                    *)
(***************************************************************************)
Range(seq) == {seq[k] : k \in 1..Len(seq)}

\* C38: under every interleaving of Push, Pop, Peek and Len calls no item is
\* lost or duplicated: every item ever pushed is either in the queue or has
\* been returned by exactly one Pop, never both and never twice; Peek and Len
\* move nothing, and Len returns the number of items queued at that moment.
C38_NoItemLostOrDuplicated ==
    /\ [](/\ Range(popped) \cup Range(heap) = 1..Len(items)
          /\ Range(popped) \cap Range(heap) = {}
          /\ Len(popped) + Len(heap) = Len(items))
    /\ [][ret'.op \in {"Peek", "Len"} =>
              /\ heap' = heap /\ popped' = popped
              /\ \A k \in 1..Len(items) :
                     /\ items'[k].Value = items[k].Value
                     /\ items'[k].Priority = items[k].Priority]_qvars
    /\ [][ret'.op = "Len" => ret'.n = Len(heap') /\ ret'.n = Len(items) - Len(popped)]_qvars

\* Len is called between a Pop and a Push while items are both queued and popped.
C38_Witness ==
    /\ ret.op = "Len" /\ ret.n = 2
    /\ Len(popped) = 1
    /\ mixed


(***************************************************************************)
(* An enrichment cycle with an empty credential pool.                      *)
(***************************************************************************)
\* C39: while the credential pool is empty, an enrichment cycle removes
\* nothing from the transaction queue, starts no sub-batch and persists
\* nothing: every batch pushed is still queued and the store stays empty.
C39_EmptyPoolCycleIsNoop ==
    /\ []((clients = 0 /\ enrich.pc = "top") =>
              /\ Len(transactionQueue.heap) = Len(transactionQueue.items)
              /\ tasks = <<>>
              /\ store = EmptyBag)
    /\ [][(clients = 0 /\ enrich.pc = "top") =>
              /\ store' = store
              /\ tasks' = tasks
              /\ Len(transactionQueue'.heap) >= Len(transactionQueue.heap)
              /\ \A k \in 1..Len(transactionQueue.heap) :
                     \E j \in 1..Len(transactionQueue'.heap) :
                         transactionQueue'.heap[j] = transactionQueue.heap[k]
              /\ enrich'.pc = "top"]_vars

\* A cycle has run with an empty pool while two batches were waiting.
C39_Witness ==
    /\ clients = 0
    /\ enrich.last = "nopool"
    /\ Len(transactionQueue.heap) = 2


(***************************************************************************)
(* Termination of handleBlock.                                             *)
(***************************************************************************)
Outcomes == {"batch", "empty", "parsefail", "abandoned"}

\* The outcome of the handleBlock of slot is o, and it is the only one: a
\* batch is queued for the slot exactly when o is "batch".
EndsIn(slot, o) ==
    /\ hb[slot].result = o
    /\ (o = "batch") <=> (BatchesOf(slot) # {})
    /\ (o = "abandoned") <=> (hb[slot].abandoned = 1)
    /\ hb[slot].abandoned <= 1
    /\ Cardinality(BatchesOf(slot)) <= 1

\* C40: every handleBlock call returns whatever the GetBlock calls answer
\* (error, nil, empty, payload): each turn of its loop either ends it or
\* raises the retry counter, which is bounded; and it ends in exactly one of
\* four ways: a batch queued, no qualifying transaction, a payload that does
\* not parse, or the slot given up.
C40_HandleBlockTerminates ==
    /\ [](\A k \in 1..Len(workers) :
              /\ workers[k].i <= MaxRetries + 1
              /\ workers[k].pc = "done" =>
                     \E o \in Outcomes : EndsIn(workers[k].slot, o))
    /\ [](\A slot \in Slots : hb[slot].result # "none" =>
              /\ EndsIn(slot, hb[slot].result)
              /\ hb[slot].result = "parsefail" => ~Parses(slot)
              /\ hb[slot].result = "empty" => Parses(slot) /\ QualifyingOf(slot) = <<>>
              /\ hb[slot].result = "batch" => Parses(slot) /\ QualifyingOf(slot) # <<>>)
    /\ [](\A k \in 1..Len(workers) : workers[k].pc = "run" => ENABLED handleBlock(k))
    /\ [][\A k \in 1..Len(workers) :
              (workers[k].pc = "run" /\ workers'[k] # workers[k]) =>
                  \/ workers'[k].pc = "done"
                  \/ workers'[k].i = workers[k].i + 1]_vars
    /\ \A k \in 1..BatchSize :
           (Len(workers) >= k /\ workers[k].pc = "run")
               ~> (Len(workers) >= k /\ workers[k].pc = "done")

\* The three slots of a cycle have ended in three different ways, one of them
\* given up after every call failed, and the cycle is over.
C40_Witness ==
    /\ hb[FirstSlot].result = "abandoned"
    /\ hb[FirstSlot].calls = MaxRetries + 1
    /\ hb[FirstSlot + 1].result = "empty"
    /\ hb[FirstSlot + 2].result = "parsefail"
    /\ scan.pc = "sleep"


(***************************************************************************)
(* What one scan cycle takes from the block queue.                         *)
(***************************************************************************)
\* C34 as stated: the slots a cycle has taken are in ascending order.
C34_TakenAscending ==
    /\ Len(scan.slotList) <= BatchSize
    /\ \A j, k \in 1..Len(scan.slotList) : j < k => scan.slotList[j] < scan.slotList[k]

\* C34: a scan cycle takes at most BatchSize slots; each slot it takes is the
\* lowest one pending at the moment it is taken; it stops short of BatchSize
\* only on finding the block queue empty; and a cycle that finds nothing
\* pending starts no handleBlock and leaves both queues as they are.
C34_ScanTakesLowestPending ==
    /\ [](Len(scan.slotList) <= BatchSize /\ Len(workers) <= Len(scan.slotList))
    /\ [][(scan.pc = "pop" /\ scan' # scan /\ Len(scan'.slotList) > Len(scan.slotList)) =>
              LET slot == scan'.slotList[Len(scan'.slotList)]
              IN  /\ scan'.slotList = Append(scan.slotList, slot)
                  /\ slot \in QueuedSlots(blockQueue)
                  /\ \A other \in QueuedSlots(blockQueue) : slot <= other
                  /\ QueuedSlots(blockQueue') = QueuedSlots(blockQueue) \ {slot}
                  /\ transactionQueue' = transactionQueue]_vars
    /\ [][(scan.pc = "pop" /\ scan'.pc = "launch" /\ Len(scan'.slotList) < BatchSize) =>
              /\ blockQueue.heap = <<>>
              /\ blockQueue' = blockQueue]_vars
    /\ [][(scan.pc = "pop" /\ scan.slotList = <<>> /\ blockQueue.heap = <<>>
            /\ <<scan, blockQueue>>' # <<scan, blockQueue>>) =>
              \/ /\ scan'.pc = "sleep"
                 /\ UNCHANGED <<blockQueue, transactionQueue, workers, hb>>
              \/ /\ scan' = scan
                 /\ Len(blockQueue'.heap) = 1]_vars

\* A cycle has taken three slots, the second one pushed after the first was
\* taken and lower than it.
C34_Witness ==
    /\ scan.pc = "launch"
    /\ scan.slotList = <<FirstSlot + 1, FirstSlot, FirstSlot + 2>>
    /\ blockQueue.heap = <<>>


(***************************************************************************)
(* Races of the subscription client's calls and loops.                     *)
(***************************************************************************)
\* C33: no interleaving of subscribe, the loops, handleDisconnect and Close
\* ends the process: a subscribe call whose connection is discarded between
\* its check and its write returns an error.
C33_SubscribeRaceReturnsError ==
    /\ ~Crashed
    /\ ev.op = "subscribe" => ev.res \in {"pending", "ok", "err"}

\* C35: whatever connects, transport failures and reconnects have happened,
\* a client has at most one readLoop and at most one pingLoop running.
C35_AtMostOneLoopEach ==
    /\ NumOf(thr, "read") <= 1
    /\ NumOf(thr, "ping") <= 1

\* C36: when Close comes between the closed check of a Connect and its
\* assignment of c.conn, the client is never closed while it holds an open
\* connection with a readLoop and a pingLoop running on it.
C36_CloseDuringConnect ==
    closed =>
        ~(/\ conn # 0
          /\ tstate[conn] = "open"
          /\ NumOf(thr, "read") >= 1
          /\ NumOf(thr, "ping") >= 1)

\* C32: once Close has been called, no reconnect task of the client
\* establishes a new connection: a reconnect goroutine that ends its dial
\* on a closed client leaves no new transport and no c.conn behind.
C32_NoConnectionAfterClose ==
    [][\A th \in Running :
           (closed /\ th.ty = "recon" /\ th.pc = "dial"
            /\ CopiesIn(th, thr') < CopiesIn(th, thr)) =>
               /\ Len(tstate') = Len(tstate)
               /\ conn' \in {conn, 0}
               /\ Loops(thr') <= Loops(thr)]_vars


(***************************************************************************)
(* Dispatch of notifications to handlers.                                  *)
(***************************************************************************)
\* The read loop th is in its loop: about to read or blocked in ReadMessage.
InLoop(th) == th.ty = "read" /\ th.pc \in {"top", "reading"}

\* C31: the read loop starts the handler and goes on: the step that
\* dispatches a message leaves the loop at the top of its next turn with one
\* more handler running; the loop never stands anywhere waiting for a
\* handler; and while handlers are running (none of them has to return) the
\* loop can take its next step, and can dispatch the next notification.
C31_FireAndForget ==
    /\ [][handlers' > handlers =>
              /\ handlers' = handlers + 1
              /\ ev'.op = "read" /\ ev'.res = "dispatch"
              /\ \E th \in Running :
                     /\ th.ty = "read" /\ th.pc = "reading"
                     /\ thr' = Spawn(Exit(thr, th), T("read", "top", 0, FALSE))
              /\ UNCHANGED <<conn, tstate, closed, done>>]_vars
    /\ [][(ev'.op = "read" /\ ev'.res = "dispatch" /\ ev' # ev) =>
              handlers' = handlers + 1]_vars
    /\ [](\A th \in Running :
              th.ty = "read" => th.pc \in {"top", "reading", "disc", "disc2"})
    /\ [](\A th \in Running :
              (handlers > 0 /\ InLoop(th)) =>
                  ENABLED (readLoopSelect(th) \/ readLoopMessage(th)))
    /\ [](\A th \in Running :
              (/\ handlers > 0 /\ handlers < MaxHandlers
               /\ th.ty = "read" /\ th.pc = "reading" /\ ~Fails(th.t)
               /\ handlerExists(kind, "notification")) =>
                  ENABLED (readLoopMessage(th) /\ handlers' = handlers + 1))

\* The WebSocketClient's loop has dispatched a second notification while the
\* handler of the first has not returned, and is at the top of its loop again.
C31_Witness ==
    /\ kind = "ws"
    /\ handlers = 2
    /\ ev.op = "read" /\ ev.res = "dispatch"
    /\ \E th \in Running : th.ty = "read" /\ th.pc = "top"

\* C37: a notification goes to the handler that the subscribe call for its
\* method was given: the handler a subscribed method's notifications are
\* delivered to is the one passed for that method, whatever other method is
\* subscribed afterwards, and each dispatch starts that handler.
C37_HandlerPerMethod ==
    /\ [](\A method \in asked :
              subscriptions[NotificationOf(method)] = HandlerOf(method))
    /\ [][(kind = "ws" /\ ev'.op = "read" /\ ev'.res = "dispatch" /\ ev' # ev) =>
              \E method \in asked :
                  /\ NotificationOf(method) = MethodOfMessage(ev'.msg)
                  /\ ev'.to = HandlerOf(method)]_vars
====
